---- MODULE Spec2Model ----
(***************************************************************************)
(* Model of the retail management application: the relational store        *)
(* (product_variants, stock_logs, sales, sale_items, shop_settings), the   *)
(* stock adjustment form, the variant manager, product deletion and the    *)
(* point-of-sale checkout.  Every store call is one step; a handler that   *)
(* awaits several store calls is a sequence of steps, so that calls of     *)
(* different browser sessions interleave as they do against the store.     *)
(***************************************************************************)
EXTENDS Integers, Sequences, FiniteSets, TLC

\* ------------------------------------------------------------------ bounds
MaxStock == 2        \* largest stored quantity explored
MaxAdj == 2          \* largest value typed into a quantity field

ProductIds == {"p1", "p2"}
StockProducts == {"p1"}   \* the catalogue the stock specification starts from

\* Price lists, in cents, the point-of-sale specification starts from.
Catalogues == <<[p \in ProductIds |-> IF p = "p1" THEN 10000 ELSE 5000],
                [p \in ProductIds |-> IF p = "p1" THEN 1999 ELSE 10]>>
VariantIds == {"v1"}
Sessions == {"s1", "s2"}
AdjustmentTypes == {"add", "remove", "set"}

\* What a user can type into a type="number" field: one below the minimum too.
QuantityInputs == (0 - 1)..MaxAdj

VARIABLES
    products,          \* store: ids of the rows of public.products
    product_variants,  \* store: variant id -> [product_id, quantity]
    stock_logs,        \* store: sequence of rows of public.stock_logs
    productPrice,      \* store: products.price in cents, per product id
    sales,             \* store: sequence of rows of public.sales
    sale_items,        \* store: sequence of rows of public.sale_items
    customers,         \* store: phone numbers of the rows of public.customers
    shop_settings,     \* store: sequence of rows of public.shop_settings
    shopSettings,      \* Settings state: index of the row loaded, 0 = null
    cart,              \* POS state: sequence of CartItem
    customerName,      \* POS state
    phoneNumber,       \* POS state
    paymentMethod,     \* POS state
    posPc,             \* position of handleCheckout
    sale,              \* the id of the sale row handleCheckout got back, 0 = none
    posWrites,         \* store writes the last handleCheckout issued
    posOutcome,        \* how the last handleCheckout ended
    selectedProduct,   \* StockAdjustment state, per session
    selectedVariant,   \* StockAdjustment state, per session ("" = none)
    currentStock,      \* StockAdjustment state: <<>> = null, <<q>> = loaded q
    pc,                \* position of the session's handleAdjustment call
    attempt,           \* what the handleAdjustment call in progress captured
    writes,            \* store writes the session's last handleAdjustment issued
    outcome,           \* how the session's last handleAdjustment ended
    productSku,        \* store: products.sku, per product id
    productCategory,   \* store: products.category_id, per product id
    bulkPc,            \* position of BulkEditDialog.handleSubmit
    bulk,              \* what the bulk edit in progress captured at submit
    bulkFetched,       \* the fetched products the adjust loop has still to process
    bulkOutcome,       \* how the last bulk edit ended
    bulkEdits,         \* number of bulk edits submitted
    csvPc,             \* position of handleImportCSV
    csv,               \* the locals of the import in progress
    csvOutcome,        \* how the last import ended
    csvImports,        \* number of files handed to handleImportCSV
    auth_users,        \* store: ids of the committed rows of auth.users
    user_roles,        \* store: rows <<user_id, role>> of public.user_roles
    signups,           \* sign-up transactions in flight: user id -> user_count read
    creations,         \* history: the sign-ups committed, in commit order
    appRows,           \* store: rows [table, id, val] of profiles and the other tables
    lastCall,          \* the last request made through the API: who, what, its effect
    prodPc,            \* position of Products.handleSubmit
    prodForm,          \* what the product form in progress submitted
    prodOutcome,       \* how the last product form submit ended
    keyboardBuffer,    \* POS state: the keys buffered, a sequence of characters
    scanTimer,         \* the inactivity timer of the key handler is armed
    effectPending,     \* a render changed keyboardBuffer and its effect has not re-run
    lsnCart,           \* the cart of the render whose key handler is registered
    idle100,           \* 100 ms have passed since the last key
    entry,             \* history: the keys typed since the last 100 ms without a key
    authSession,       \* auth client: the user of the current session ("" = none)
    authEvents,        \* auth client: the sessions of the events not yet delivered
    layMounted,        \* AppLayout is mounted (the location is a protected page)
    layUser,           \* AppLayout state: user ("" = null)
    userRole,          \* AppLayout state: userRole ("" = null)
    loading,           \* AppLayout state
    sessionCheck,      \* setupAuth awaits getSession
    roleLookups        \* the users whose checkUserRole is awaited

stockVars == <<products, product_variants, stock_logs>>
formVars == <<selectedProduct, selectedVariant, currentStock, pc, attempt, writes,
              outcome>>
posVars == <<productPrice, sales, sale_items, customers, shop_settings, shopSettings,
             cart, customerName, phoneNumber, paymentMethod, posPc, sale, posWrites,
             posOutcome>>
catalogVars == <<productSku, productCategory, bulkPc, bulk, bulkFetched, bulkOutcome,
                 bulkEdits, csvPc, csv, csvOutcome, csvImports>>
accountVars == <<auth_users, user_roles, signups, creations, appRows, lastCall>>
productFormVars == <<prodPc, prodForm, prodOutcome>>
scanVars == <<keyboardBuffer, scanTimer, effectPending, lsnCart, idle100, entry>>
layoutVars == <<authSession, authEvents, layMounted, layUser, userRole, loading,
                sessionCheck, roleLookups>>
pageVars == <<productFormVars, scanVars, layoutVars>>
adminVars0 == <<catalogVars, accountVars, productFormVars, scanVars>>
adminVars == <<catalogVars, accountVars, pageVars>>
vars == <<stockVars, formVars, posVars, adminVars>>

\* ------------------------------------------------------------------ schema

\* CHECK (type IN ('in', 'out', 'sale', 'return')) of public.stock_logs.
StockLogTypeCheck(type) == type \in {"in", "out", "sale", "return"}

\* stock_logs.product_id and variant_id REFERENCES ... : the row's parents exist.
StockLogForeignKeys(row) ==
    /\ row.product_id \in products
    /\ row.variant_id \in DOMAIN product_variants

\* ON DELETE CASCADE of stock_logs.variant_id: the rows left after variants vs go.
StockLogsWithoutVariants(logs, vs) == SelectSeq(logs, LAMBDA r : r.variant_id \notin vs)

\* ON DELETE CASCADE of stock_logs.product_id: the rows left after product p goes.
StockLogsWithoutProduct(logs, p) == SelectSeq(logs, LAMBDA r : r.product_id # p)

\* The variants of product p.
VariantsOf(p) == {v \in DOMAIN product_variants : product_variants[v].product_id = p}

\* A function without the keys in ks.
Without(f, ks) == [k \in DOMAIN f \ ks |-> f[k]]

\* ------------------------------------------------------------------ stock adjustment

NoAttempt == [variant |-> "", product |-> "", type |-> "add", qty |-> 0,
              base |-> 0, newQuantity |-> 0]

\* Mutant: the quantity inputs without their min="0".
QuantityInputValid_NoMin(n) == TRUE

\* min="0" of the quantity inputs: the browser submits the form only when it holds.
QuantityInputValid(n) == n >= 0

\* `currentStock || 0`
OrZero(cs) == IF cs = <<>> THEN 0 ELSE cs[1]

\* The switch on adjustmentType.
NewQuantity(current, type, adjustmentQty) ==
    CASE type = "add" -> current + adjustmentQty
      [] type = "remove" -> current - adjustmentQty
      [] type = "set" -> adjustmentQty

\* The type tag of the stock-log row.
LogType(type) ==
    CASE type = "add" -> "adjustment_in"
      [] type = "remove" -> "adjustment_out"
      [] type = "set" -> "adjustment_set"

\* Mutant: the stock-log row always records the resulting quantity.
LogQuantity_AlwaysNew(type, newQuantity, adjustmentQty) == newQuantity

\* The quantity of the stock-log row.
LogQuantity(type, newQuantity, adjustmentQty) ==
    IF type = "set" THEN newQuantity ELSE adjustmentQty

\* The stock-log row handleAdjustment inserts.
LogRow(a) ==
    [product_id |-> a.product, variant_id |-> a.variant, type |-> LogType(a.type),
     quantity |-> LogQuantity(a.type, a.newQuantity, a.qty)]

\* Mutant: the negative check compares with <= -2 instead of < 0.
StockCannotBeNegative_OffByOne(newQ) == newQ < 0 - 1

\* Mutant: the update's error is ignored and the log insert follows anyway.
UpdateErrorThrows_Ignored(ok) == FALSE

\* Mutant: the update applies the adjustment to the row's quantity (serialized).
WrittenQuantity_Relative(rows, a) ==
    IF a.variant \in DOMAIN rows
    THEN NewQuantity(rows[a.variant].quantity, a.type, a.qty)
    ELSE a.newQuantity

\* Mutant: the negative check never rejects.
StockCannotBeNegative_Never(newQ) == FALSE

\* if (newQuantity < 0) { toast.error('Stock cannot be negative'); return; }
StockCannotBeNegative(newQ) == newQ < 0

\* if (updateError) throw updateError
UpdateErrorThrows(ok) == ~ok

\* .update({ quantity: newQuantity }): the value written whatever the row holds.
WrittenQuantity(rows, a) == a.newQuantity

\* .update({ quantity }).eq('id', v): no row matched is no error.
UpdateQuantity(rows, v, q) ==
    IF v \in DOMAIN rows THEN [rows EXCEPT ![v].quantity = q] ELSE rows

\* loadCurrentStock(v): the quantity read is kept; an error is only logged.
loadCurrentStock(cs, v, ok) ==
    IF ok /\ v \in DOMAIN product_variants THEN <<product_variants[v].quantity>> ELSE cs

\* setSelectedVariant(v) after picking its product; the effect calls loadCurrentStock.
SelectVariant(s, v, ok) ==
    /\ pc[s] = "idle"
    /\ v \in DOMAIN product_variants
    /\ selectedProduct' = [selectedProduct EXCEPT ![s] = product_variants[v].product_id]
    /\ selectedVariant' = [selectedVariant EXCEPT ![s] = v]
    /\ currentStock' = [currentStock EXCEPT ![s] = loadCurrentStock(@, v, ok)]
    /\ UNCHANGED <<adminVars, stockVars, posVars, pc, attempt, writes, outcome>>

\* resetForm
ResetForm(s) ==
    /\ pc[s] = "idle"
    /\ selectedVariant[s] # ""
    /\ selectedProduct' = [selectedProduct EXCEPT ![s] = ""]
    /\ selectedVariant' = [selectedVariant EXCEPT ![s] = ""]
    /\ currentStock' = [currentStock EXCEPT ![s] = <<>>]
    /\ UNCHANGED <<adminVars, stockVars, posVars, pc, attempt, writes, outcome>>

\* handleAdjustment up to its first store write: guards, getUser, the new quantity.
\* With a field missing it returns before setLoading(true) and nothing changes.
HandleAdjustment(s, type, n, user) ==
    /\ pc[s] = "idle"
    /\ QuantityInputValid(n)
    /\ selectedProduct[s] # "" /\ selectedVariant[s] # ""
    /\ LET base == OrZero(currentStock[s])
           newQ == NewQuantity(base, type, n)
       IN  /\ newQ <= MaxStock
           /\ attempt' = [attempt EXCEPT ![s] =
                  [variant |-> selectedVariant[s], product |-> selectedProduct[s],
                   type |-> type, qty |-> n, base |-> base, newQuantity |-> newQ]]
           /\ IF ~user
              THEN /\ outcome' = [outcome EXCEPT ![s] = "error"]
                   /\ pc' = [pc EXCEPT ![s] = "done"]
              ELSE IF StockCannotBeNegative(newQ)
              THEN /\ outcome' = [outcome EXCEPT ![s] = "rejected"]
                   /\ pc' = [pc EXCEPT ![s] = "done"]
              ELSE /\ outcome' = [outcome EXCEPT ![s] = "pending"]
                   /\ pc' = [pc EXCEPT ![s] = "update"]
    /\ UNCHANGED <<adminVars, stockVars, posVars, selectedProduct, selectedVariant, currentStock,
                   writes>>

\* The product_variants update returns.
UpdateVariantDone(s, ok) ==
    /\ pc[s] = "update"
    /\ writes' = [writes EXCEPT ![s] = Append(@, [op |-> "update_variant",
                     variant |-> attempt[s].variant, type |-> "",
                     quantity |-> attempt[s].newQuantity, ok |-> ok])]
    /\ product_variants' =
           IF ok THEN UpdateQuantity(product_variants, attempt[s].variant,
                                     WrittenQuantity(product_variants, attempt[s]))
                 ELSE product_variants
    /\ IF UpdateErrorThrows(ok)
       THEN /\ pc' = [pc EXCEPT ![s] = "done"]
            /\ outcome' = [outcome EXCEPT ![s] = "error"]
       ELSE /\ pc' = [pc EXCEPT ![s] = "log"]
            /\ UNCHANGED outcome
    /\ UNCHANGED <<adminVars, products, stock_logs, posVars, selectedProduct, selectedVariant,
                   currentStock, attempt>>

\* The store's answer to the stock_logs insert.
LogInsertAccepted(row, ok) == ok /\ StockLogTypeCheck(row.type) /\ StockLogForeignKeys(row)

\* The stock_logs insert returns; on success the form reloads the current stock.
InsertStockLogDone(s, ok, okLoad) ==
    /\ pc[s] = "log"
    /\ pc' = [pc EXCEPT ![s] = "done"]
    /\ writes' = [writes EXCEPT ![s] = Append(@, [op |-> "insert_stock_log",
                     variant |-> attempt[s].variant, type |-> LogRow(attempt[s]).type,
                     quantity |-> LogRow(attempt[s]).quantity,
                     ok |-> LogInsertAccepted(LogRow(attempt[s]), ok)])]
    /\ IF LogInsertAccepted(LogRow(attempt[s]), ok)
       THEN /\ stock_logs' = Append(stock_logs, LogRow(attempt[s]))
            /\ outcome' = [outcome EXCEPT ![s] = "success"]
            /\ currentStock' = [currentStock EXCEPT
                                    ![s] = loadCurrentStock(@, attempt[s].variant, okLoad)]
       ELSE /\ outcome' = [outcome EXCEPT ![s] = "error"]
            /\ UNCHANGED <<stock_logs, currentStock>>
    /\ UNCHANGED <<adminVars, products, product_variants, posVars, selectedProduct,
                   selectedVariant, attempt>>

\* finally { setLoading(false) }: the form accepts the next submit.
AdjustmentFinally(s) ==
    /\ pc[s] = "done"
    /\ pc' = [pc EXCEPT ![s] = "idle"]
    /\ attempt' = [attempt EXCEPT ![s] = NoAttempt]
    /\ writes' = [writes EXCEPT ![s] = <<>>]
    /\ outcome' = [outcome EXCEPT ![s] = "none"]
    /\ UNCHANGED <<adminVars, stockVars, posVars, selectedProduct, selectedVariant, currentStock>>

\* ------------------------------------------------------------------ variant manager

\* VariantManager.handleSubmit, no editingVariant: insert a variant of product p.
CreateVariant(v, p, n, ok) ==
    /\ QuantityInputValid(n)
    /\ v \notin DOMAIN product_variants
    /\ IF ok /\ p \in products
       THEN product_variants' = [k \in DOMAIN product_variants \cup {v} |->
                IF k = v THEN [product_id |-> p, quantity |-> n] ELSE product_variants[k]]
       ELSE UNCHANGED product_variants
    /\ UNCHANGED <<adminVars, products, stock_logs, posVars, formVars>>

\* VariantManager.handleSubmit with editingVariant: update the variant's fields.
EditVariant(v, n, ok) ==
    /\ QuantityInputValid(n)
    /\ v \in DOMAIN product_variants
    /\ product_variants' = IF ok THEN UpdateQuantity(product_variants, v, n)
                           ELSE product_variants
    /\ UNCHANGED <<adminVars, products, stock_logs, posVars, formVars>>

\* VariantManager.handleDelete: the delete cascades to the variant's stock logs.
DeleteVariant(v, ok) ==
    /\ v \in DOMAIN product_variants
    /\ IF ok
       THEN /\ product_variants' = Without(product_variants, {v})
            /\ stock_logs' = StockLogsWithoutVariants(stock_logs, {v})
       ELSE UNCHANGED <<product_variants, stock_logs>>
    /\ UNCHANGED <<adminVars, products, posVars, formVars>>

\* Products.handleDelete: refused while a sale item references the product,
\* otherwise cascading to its variants and to its and their stock logs.
DeleteProduct(p, ok) ==
    /\ p \in products
    /\ IF ok /\ \A i \in 1..Len(sale_items) : sale_items[i].product_id # p
       THEN /\ products' = products \ {p}
            /\ product_variants' = Without(product_variants, VariantsOf(p))
            /\ stock_logs' = StockLogsWithoutVariants(
                                 StockLogsWithoutProduct(stock_logs, p), VariantsOf(p))
       ELSE UNCHANGED <<products, product_variants, stock_logs>>
    /\ UNCHANGED <<adminVars, posVars, formVars>>

\* ------------------------------------------------------------------ point of sale
\* Money: prices and line totals are in cents.  calculateTax and calculateTotal are
\* in hundredths of a cent, where 5% of a whole number of cents is a whole number.

MaxQty == 2          \* largest quantity of a cart line explored
MaxSales == 2        \* most checkouts explored
MaxSettingsRows == 1 \* most shop_settings rows explored

TaxRateInputs == {5, 10}
\* What the cashier enters: <<customer name, phone number, payment method>>.
CustomerEntries == {<<"", "", "cash">>, <<"Ann", "", "card">>, <<"Ann", "555", "cash">>}

\* Mutant: the checkout reads its rate from the first shop_settings row.
CheckoutTaxRate_FromSettings == shop_settings[1].tax_rate

\* `* 0.05; // 5% tax`: the rate of calculateTax, in percent.
CheckoutTaxRate == 5

\* cart.find(item => item.product.id === p): the index of p's line, 0 if none.
CartIndex(c, p) ==
    IF \E i \in 1..Len(c) : c[i].product = p
    THEN CHOOSE i \in 1..Len(c) : c[i].product = p /\ \A j \in 1..(i - 1) : c[j].product # p
    ELSE 0

\* removeFromCart
removeFromCart(c, p) == SelectSeq(c, LAMBDA item : item.product # p)

\* Mutant: updateQuantity leaves the line's total as it was.
updateQuantity_KeepTotal(c, p, newQuantity) ==
    IF newQuantity <= 0
    THEN removeFromCart(c, p)
    ELSE [i \in 1..Len(c) |->
            IF c[i].product = p THEN [c[i] EXCEPT !.quantity = newQuantity] ELSE c[i]]

\* updateQuantity
updateQuantity(c, p, newQuantity) ==
    IF newQuantity <= 0
    THEN removeFromCart(c, p)
    ELSE [i \in 1..Len(c) |->
            IF c[i].product = p
            THEN [c[i] EXCEPT !.quantity = newQuantity, !.total = c[i].price * newQuantity]
            ELSE c[i]]

\* addToCart, of a product with the given price
addToCart(c, p, price) ==
    IF CartIndex(c, p) # 0
    THEN updateQuantity(c, p, c[CartIndex(c, p)].quantity + 1)
    ELSE Append(c, [product |-> p, price |-> price, quantity |-> 1, total |-> price])

\* calculateSubtotal: cart.reduce((sum, item) => sum + item.total, 0), in cents.
RECURSIVE calculateSubtotal(_)
calculateSubtotal(c) ==
    IF c = <<>> THEN 0 ELSE c[1].total + calculateSubtotal(Tail(c))

\* calculateTax: calculateSubtotal() * 0.05, in hundredths of a cent.
calculateTax(c) == calculateSubtotal(c) * CheckoutTaxRate

\* Mutant: the total leaves the tax out.
calculateTotal_NoTax(c) == calculateSubtotal(c) * 100

\* calculateTotal: calculateSubtotal() + calculateTax(), in hundredths of a cent.
calculateTotal(c) == calculateSubtotal(c) * 100 + calculateTax(c)

\* A decimal(10,2) column: a non-negative amount in hundredths of a cent stored as
\* cents, rounded half up.
Decimal2(x) == (x + 50) \div 100

\* Mutant: every sale item carries the quantity 1.
SaleItemRows_UnitQuantity(c, saleId) ==
    [i \in 1..Len(c) |->
        [sale_id |-> saleId, product_id |-> c[i].product, quantity |-> 1,
         unit_price |-> c[i].price, total_price |-> c[i].total]]

\* cart.map(item => ({ sale_id: sale.id, ... })): the sale items handleCheckout inserts.
SaleItemRows(c, saleId) ==
    [i \in 1..Len(c) |->
        [sale_id |-> saleId, product_id |-> c[i].product, quantity |-> c[i].quantity,
         unit_price |-> c[i].price, total_price |-> c[i].total]]

\* Mutant: storing the sale items takes the sold quantities off the products' variants.
StockAfterCheckout_Decrement(variants, rows) ==
    [v \in DOMAIN variants |->
        IF \E i \in 1..Len(rows) : rows[i].product_id = variants[v].product_id
        THEN [variants[v] EXCEPT !.quantity = @ - rows[
                 CHOOSE i \in 1..Len(rows) : rows[i].product_id = variants[v].product_id].quantity]
        ELSE variants[v]]

\* product_variants after the sale items are stored: handleCheckout issues no call on
\* product_variants or stock_logs, and sale_items carries no trigger.
StockAfterCheckout(variants, rows) == variants

\* Mutant: the checkout empties the cart whatever the sale items insert returned.
CartAfterItemsInsert_Always(c, accepted) == <<>>

\* if (itemsError) throw itemsError; ... setCart([]): the cart after the sale items
\* insert returned.
CartAfterItemsInsert(c, accepted) == IF accepted THEN <<>> ELSE c

\* sale_items.sale_id, product_id REFERENCES ...: the rows' parents exist.
SaleItemForeignKeys(rows) ==
    \A i \in 1..Len(rows) :
        /\ rows[i].product_id \in products
        /\ \E j \in 1..Len(sales) : sales[j].id = rows[i].sale_id

posFormVars == <<cart, customerName, phoneNumber, paymentMethod>>
posStoreVars == <<productPrice, sales, sale_items, customers>>
settingsVars == <<shop_settings, shopSettings>>

\* The product card's onClick: addToCart(product).
AddToCart(p) ==
    /\ posPc = "idle"
    /\ p \in products
    /\ CartIndex(cart, p) # 0 => cart[CartIndex(cart, p)].quantity < MaxQty
    /\ cart' = addToCart(cart, p, productPrice[p])
    /\ UNCHANGED <<adminVars, stockVars, formVars, posStoreVars, settingsVars, customerName,
                   phoneNumber, paymentMethod, posPc, sale, posWrites, posOutcome>>

\* The minus button of a cart line: updateQuantity(id, quantity - 1).
DecrementQuantity(p) ==
    /\ posPc = "idle"
    /\ CartIndex(cart, p) # 0
    /\ cart' = updateQuantity(cart, p, cart[CartIndex(cart, p)].quantity - 1)
    /\ UNCHANGED <<adminVars, stockVars, formVars, posStoreVars, settingsVars, customerName,
                   phoneNumber, paymentMethod, posPc, sale, posWrites, posOutcome>>

\* The trash button of a cart line: removeFromCart(id).
RemoveFromCart(p) ==
    /\ posPc = "idle"
    /\ CartIndex(cart, p) # 0
    /\ cart' = removeFromCart(cart, p)
    /\ UNCHANGED <<adminVars, stockVars, formVars, posStoreVars, settingsVars, customerName,
                   phoneNumber, paymentMethod, posPc, sale, posWrites, posOutcome>>

\* The customer and payment fields.
SetCustomerFields(name, phone, method) ==
    /\ posPc = "idle"
    /\ <<name, phone, method>> # <<customerName, phoneNumber, paymentMethod>>
    /\ customerName' = name
    /\ phoneNumber' = phone
    /\ paymentMethod' = method
    /\ UNCHANGED <<adminVars, stockVars, formVars, posStoreVars, settingsVars, cart, posPc, sale,
                   posWrites, posOutcome>>

\* handleCheckout up to its first store write: the empty-cart guard and getUser.
\* With an empty cart it returns before setLoading(true).
HandleCheckout(user) ==
    /\ posPc = "idle"
    /\ Len(sales) < MaxSales
    /\ IF cart = <<>>
       THEN /\ posOutcome' = "empty"
            /\ UNCHANGED posPc
       ELSE IF ~user
       THEN /\ posOutcome' = "error"
            /\ posPc' = "done"
       ELSE /\ posOutcome' = "pending"
            /\ posPc' = "sale"
    /\ posWrites' = <<>>
    /\ sale' = 0
    /\ UNCHANGED <<adminVars, stockVars, formVars, posStoreVars, settingsVars, posFormVars>>

\* The sales insert returns: the stored row, its amounts as the decimal columns
\* keep them.  settings_rate records what shop_settings held at that moment.
InsertSaleDone(ok) ==
    /\ posPc = "sale"
    /\ LET id == Len(sales) + 1
           payload == [op |-> "insert_sale", ok |-> ok,
                       tax_amount |-> calculateTax(cart),
                       total_amount |-> calculateTotal(cart), rows |-> <<>>]
       IN  /\ posWrites' = Append(posWrites, payload)
           /\ IF ok
              THEN /\ sales' = Append(sales,
                          [id |-> id, tax_amount |-> Decimal2(payload.tax_amount),
                           total_amount |-> Decimal2(payload.total_amount),
                           settings_rate |-> shop_settings[1].tax_rate])
                   /\ sale' = id
                   /\ posPc' = IF phoneNumber # "" /\ customerName # ""
                                  /\ phoneNumber \notin customers
                               THEN "customer" ELSE "items"
                   /\ UNCHANGED posOutcome
              ELSE /\ posPc' = "done"
                   /\ posOutcome' = "error"
                   /\ UNCHANGED <<sales, sale>>
    /\ UNCHANGED <<adminVars, stockVars, formVars, productPrice, sale_items, customers, settingsVars,
                   posFormVars>>

\* The customers insert returns: its error is not looked at.
InsertCustomerDone(ok) ==
    /\ posPc = "customer"
    /\ posPc' = "items"
    /\ posWrites' = Append(posWrites, [op |-> "insert_customer", ok |-> ok,
                       tax_amount |-> 0, total_amount |-> 0, rows |-> <<>>])
    /\ customers' = IF ok THEN customers \cup {phoneNumber} ELSE customers
    /\ UNCHANGED <<adminVars, stockVars, formVars, productPrice, sales, sale_items, settingsVars,
                   posFormVars, sale, posOutcome>>

\* The sale_items insert returns; on success the form is reset.
InsertSaleItemsDone(ok) ==
    /\ posPc = "items"
    /\ posPc' = "done"
    /\ LET rows == SaleItemRows(cart, sale)
           accepted == ok /\ SaleItemForeignKeys(rows)
       IN  /\ posWrites' = Append(posWrites, [op |-> "insert_sale_items", ok |-> accepted,
                              tax_amount |-> 0, total_amount |-> 0, rows |-> rows])
           /\ IF accepted
              THEN /\ sale_items' = sale_items \o rows
                   /\ product_variants' = StockAfterCheckout(product_variants, rows)
                   /\ posOutcome' = "success"
                   /\ customerName' = ""
                   /\ phoneNumber' = ""
                   /\ paymentMethod' = "cash"
              ELSE /\ posOutcome' = "error"
                   /\ UNCHANGED <<sale_items, product_variants, customerName, phoneNumber,
                                  paymentMethod>>
           /\ cart' = CartAfterItemsInsert(cart, accepted)
    /\ UNCHANGED <<adminVars, products, stock_logs, formVars, productPrice, sales, customers,
                   settingsVars, sale>>

\* finally { setLoading(false) }
CheckoutFinally ==
    /\ posPc = "done"
    /\ posPc' = "idle"
    /\ posWrites' = <<>>
    /\ posOutcome' = "none"
    /\ sale' = 0
    /\ UNCHANGED <<adminVars, stockVars, formVars, posStoreVars, settingsVars, posFormVars>>

\* loadShopSettings: .limit(1).maybeSingle(); an error leaves the state as it was.
LoadShopSettings(ok) ==
    /\ shopSettings = 0
    /\ ok /\ Len(shop_settings) > 0
    /\ shopSettings' = 1
    /\ UNCHANGED <<adminVars, stockVars, formVars, posStoreVars, shop_settings, posFormVars, posPc,
                   sale, posWrites, posOutcome>>

\* handleSaveShopSettings with tax rate field `rate`: update the loaded row, or insert
\* one when none is loaded; then loadShopSettings.
SaveShopSettings(rate, ok, okLoad) ==
    /\ shopSettings = 0 => Len(shop_settings) < MaxSettingsRows
    /\ IF ~ok
       THEN UNCHANGED settingsVars
       ELSE /\ shop_settings' =
                  IF shopSettings # 0
                  THEN [shop_settings EXCEPT ![shopSettings].tax_rate = rate]
                  ELSE Append(shop_settings, [tax_rate |-> rate])
            /\ shopSettings' = IF okLoad THEN 1 ELSE shopSettings
    /\ UNCHANGED <<adminVars, stockVars, formVars, posStoreVars, posFormVars, posPc, sale, posWrites,
                   posOutcome>>

\* ------------------------------------------------------------------ bulk edit
\* Prices and fixed adjustments are in cents, percentage adjustments in percent; a
\* computed new price is in hundredths of a cent.  An empty form field is <<>>, a
\* filled one <<value>>.

MaxBulkEdits == 2    \* most bulk edits explored

CatalogProductIds == {"p1", "p2", "p3"}
BulkSelections == {{"p1", "p2", "p3"}, {"p1"}, {"p2", "p3"}}

\* <<editType, price, priceAdjustment, priceAdjustmentType, category_id>> as submitted.
BulkForms ==
    {<<"set", <<1500>>, <<>>, "amount", "">>,
     <<"set", <<0 - 100>>, <<>>, "amount", "">>,
     <<"set", <<>>, <<>>, "amount", "c2">>,
     <<"set", <<>>, <<>>, "amount", "">>,
     <<"adjust", <<>>, <<0 - 30>>, "percentage", "">>,
     <<"adjust", <<>>, <<0 - 3000>>, "amount", "c2">>,
     <<"adjust", <<>>, <<500>>, "amount", "">>}

posRest == <<sales, sale_items, customers, settingsVars, posFormVars, posPc, sale,
             posWrites, posOutcome>>
bulkVars == <<bulkPc, bulk, bulkFetched, bulkOutcome, bulkEdits>>
csvVars == <<csvPc, csv, csvOutcome, csvImports>>

NoBulk == [editType |-> "set", price |-> <<>>, adjustment |-> <<>>, adjType |-> "amount",
           category |-> "", selectedIds |-> {}, before |-> <<>>]

\* bulkEditSchema: the price field is empty or a number >= 0; the adjustment field,
\* a type="number" input, is empty or a number.
bulkEditSchema(price) == price = <<>> \/ price[1] >= 0

\* Mutant: a percentage adjustment is applied as a fixed amount.
BulkNewPrice_AmountOnly(price, adjType, adjustment) == (price + adjustment) * 100

\* newPrice of the adjust loop: product.price * (1 + adjustment / 100) or
\* product.price + adjustment.
BulkNewPrice(price, adjType, adjustment) ==
    IF adjType = "percentage" THEN price * (100 + adjustment)
                              ELSE (price + adjustment) * 100

\* if (newPrice < 0) { toast.error(...); return; }
PriceWouldBeNegative(newPrice) == newPrice < 0

\* Math.max(0, newPrice)
Max0(x) == IF x > 0 THEN x ELSE 0

\* products.price after update({ price }) on the rows among ids that exist.
PricesAfter(prices, ids, price) ==
    [p \in DOMAIN prices |->
        IF p \in ids /\ p \in products /\ price # <<>> THEN price[1] ELSE prices[p]]

\* products.category_id after update({ category_id }) on the rows among ids that exist.
CategoriesAfter(cats, ids, category) ==
    [p \in DOMAIN cats |->
        IF p \in ids /\ p \in products /\ category # "" THEN category ELSE cats[p]]

\* The orders in which select(...).in('id', ids) can return the rows S.
Orders(S) ==
    {q \in [1..Cardinality(S) -> S] :
        \A i, j \in 1..Cardinality(S) : i # j => q[i] # q[j]}

\* Where the adjust loop stands with the fetched rows `rest` left: finished, stopped
\* at a row whose new price is negative, or awaiting the update of the first row.
BulkLoopNext(rest, b) ==
    IF rest = <<>> THEN <<"done", "success">>
    ELSE IF PriceWouldBeNegative(BulkNewPrice(rest[1].price, b.adjType, b.adjustment[1]))
    THEN <<"done", "rejected">>
    ELSE <<"update", "pending">>

\* BulkEditDialog.handleSubmit up to its first store call.  The dialog is opened with
\* a non-empty selection.
BulkSubmit(ids, f) ==
    /\ bulkPc = "idle"
    /\ bulkEdits < MaxBulkEdits
    /\ bulkEdits' = bulkEdits + 1
    /\ bulk' = [editType |-> f[1], price |-> f[2], adjustment |-> f[3], adjType |-> f[4],
                category |-> f[5], selectedIds |-> ids,
                before |-> [p \in products |-> <<productPrice[p], productCategory[p]>>]]
    /\ bulkFetched' = <<>>
    /\ IF ~bulkEditSchema(f[2])
       THEN bulkPc' = "done" /\ bulkOutcome' = "invalid"
       ELSE IF f[1] = "set" /\ f[2] # <<>>
       THEN bulkPc' = "set" /\ bulkOutcome' = "pending"
       ELSE IF f[1] = "adjust" /\ f[3] # <<>>
       THEN bulkPc' = "fetch" /\ bulkOutcome' = "pending"
       ELSE IF f[5] # ""
       THEN bulkPc' = "category" /\ bulkOutcome' = "pending"
       ELSE bulkPc' = "done" /\ bulkOutcome' = "nochange"
    /\ UNCHANGED <<stockVars, formVars, posVars, productSku, productCategory, csvVars,
                   accountVars, pageVars>>

\* The update({ price, category_id? }).in('id', selectedIds) of a set price returns.
BulkSetDone(ok) ==
    /\ bulkPc = "set"
    /\ bulkPc' = "done"
    /\ IF ok
       THEN /\ productPrice' = PricesAfter(productPrice, bulk.selectedIds, bulk.price)
            /\ productCategory' = CategoriesAfter(productCategory, bulk.selectedIds,
                                                  bulk.category)
            /\ bulkOutcome' = "success"
       ELSE /\ bulkOutcome' = "error"
            /\ UNCHANGED <<productPrice, productCategory>>
    /\ UNCHANGED <<stockVars, formVars, posRest, productSku, bulk, bulkFetched, bulkEdits,
                   csvVars, accountVars, pageVars>>

\* The update({ category_id }).in('id', selectedIds) of a category-only edit returns.
BulkCategoryDone(ok) ==
    /\ bulkPc = "category"
    /\ bulkPc' = "done"
    /\ IF ok
       THEN /\ productCategory' = CategoriesAfter(productCategory, bulk.selectedIds,
                                                  bulk.category)
            /\ bulkOutcome' = "success"
       ELSE /\ bulkOutcome' = "error"
            /\ UNCHANGED productCategory
    /\ UNCHANGED <<stockVars, formVars, posVars, productSku, bulk, bulkFetched, bulkEdits,
                   csvVars, accountVars, pageVars>>

\* The select('id, price').in('id', selectedIds) of an adjustment returns its rows in
\* the order `order`; the loop then runs up to its first update.
BulkFetchDone(ok, order) ==
    /\ bulkPc = "fetch"
    /\ order \in Orders(bulk.selectedIds \cap products)
    /\ IF ok
       THEN LET rows == [i \in 1..Len(order) |->
                            [id |-> order[i], price |-> productPrice[order[i]]]]
            IN  /\ bulkFetched' = rows
                /\ bulkPc' = BulkLoopNext(rows, bulk)[1]
                /\ bulkOutcome' = BulkLoopNext(rows, bulk)[2]
       ELSE /\ bulkPc' = "done"
            /\ bulkOutcome' = "error"
            /\ UNCHANGED bulkFetched
    /\ UNCHANGED <<stockVars, formVars, posVars, productSku, productCategory, bulk,
                   bulkEdits, csvVars, accountVars, pageVars>>

\* The update({ ...updates, price }).eq('id', product.id) of the loop's current row
\* returns; the loop then runs up to its next update.
BulkUpdateDone(ok) ==
    /\ bulkPc = "update"
    /\ LET row == bulkFetched[1]
           newPrice == BulkNewPrice(row.price, bulk.adjType, bulk.adjustment[1])
           rest == Tail(bulkFetched)
       IN  IF ok
           THEN /\ productPrice' = PricesAfter(productPrice, {row.id},
                                               <<Decimal2(Max0(newPrice))>>)
                /\ productCategory' = CategoriesAfter(productCategory, {row.id},
                                                      bulk.category)
                /\ bulkFetched' = rest
                /\ bulkPc' = BulkLoopNext(rest, bulk)[1]
                /\ bulkOutcome' = BulkLoopNext(rest, bulk)[2]
           ELSE /\ bulkPc' = "done"
                /\ bulkOutcome' = "error"
                /\ UNCHANGED <<productPrice, productCategory, bulkFetched>>
    /\ UNCHANGED <<stockVars, formVars, posRest, productSku, bulk, bulkEdits, csvVars,
                   accountVars, pageVars>>

\* handleSubmit returns; the dialog accepts the next submit.
BulkReturn ==
    /\ bulkPc = "done"
    /\ bulkPc' = "idle"
    /\ bulk' = NoBulk
    /\ bulkFetched' = <<>>
    /\ bulkOutcome' = "none"
    /\ UNCHANGED <<stockVars, formVars, posVars, productSku, productCategory, bulkEdits,
                   csvVars, accountVars, pageVars>>

\* ------------------------------------------------------------------ CSV import
\* A data line of the file is [n, sku, price]: its number of comma-separated fields,
\* its second field and, when it has a fourth field that parses as a number, that
\* number in cents.

MaxImports == 2      \* most files imported
MaxCsvRows == 3      \* most data lines of a file

ImportIds == {"n1", "n2"}   \* the ids gen_random_uuid() gives the imported rows
CsvRowKinds ==
    {[n |-> 5, sku |-> "S1", price |-> <<500>>],
     [n |-> 5, sku |-> "N1", price |-> <<700>>],
     [n |-> 3, sku |-> "N2", price |-> <<>>],
     [n |-> 5, sku |-> "N1", price |-> <<0 - 100>>],
     [n |-> 2, sku |-> "N1", price |-> <<>>]}
CsvFiles == UNION {[1..k -> CsvRowKinds] : k \in 0..MaxCsvRows}

NoCsv == [lines |-> <<>>, productsToImport |-> <<>>, duplicatesInFile |-> <<>>,
          newProducts |-> <<>>, imported |-> 0, skipped |-> 0, duplicates |-> 0]

\* parseFloat(values[3]) || 0
ParsedPrice(row) == IF row.n >= 4 /\ row.price # <<>> THEN row.price[1] ELSE 0

\* Mutant: the loop does not look at skusInFile.
RECURSIVE ParseCsv_NoDedup(_, _)
ParseCsv_NoDedup(lines, acc) ==
    IF lines = <<>> THEN acc
    ELSE LET row == Head(lines)
         IN  ParseCsv_NoDedup(Tail(lines),
                 IF row.n >= 3 /\ ParsedPrice(row) >= 0
                 THEN [acc EXCEPT !.skusInFile = @ \cup {row.sku},
                                  !.productsToImport =
                                      Append(@, [sku |-> row.sku, price |-> ParsedPrice(row)])]
                 ELSE acc)

\* The loop over dataLines: acc is [skusInFile, productsToImport, duplicatesInFile].
RECURSIVE ParseCsv(_, _)
ParseCsv(lines, acc) ==
    IF lines = <<>> THEN acc
    ELSE LET row == Head(lines)
         IN  ParseCsv(Tail(lines),
                 IF row.n >= 3
                 THEN IF ParsedPrice(row) < 0 THEN acc
                      ELSE IF row.sku \in acc.skusInFile
                      THEN [acc EXCEPT !.duplicatesInFile = Append(@, row.sku)]
                      ELSE [acc EXCEPT !.skusInFile = @ \cup {row.sku},
                                       !.productsToImport =
                                           Append(@, [sku |-> row.sku,
                                                      price |-> ParsedPrice(row)])]
                 ELSE acc)

\* The SKUs of the stored products.
StoredSkus == {productSku[p] : p \in products}

\* existingSkus: the SKUs the lookup returned; with an error its data is null.
ExistingSkus(ok, candidates) ==
    IF ok THEN {candidates[i].sku : i \in 1..Len(candidates)} \cap StoredSkus ELSE {}

\* Mutant: every candidate is counted as skipped.
SkippedCount_All(productsToImport, newProducts) == Len(productsToImport)

\* skippedCount = productsToImport.length - newProducts.length
SkippedCount(productsToImport, newProducts) == Len(productsToImport) - Len(newProducts)

\* sku text UNIQUE: the rows' SKUs differ from each other and from the stored ones.
ProductsSkuUnique(rows) ==
    /\ \A i \in 1..Len(rows) : rows[i].sku \notin StoredSkus
    /\ \A i, j \in 1..Len(rows) : i # j => rows[i].sku # rows[j].sku

\* The ids the inserted rows get: k distinct ids no row has had.
FreshIds(k) ==
    CHOOSE q \in [1..k -> ImportIds \ DOMAIN productSku] :
        \A i, j \in 1..k : i # j => q[i] # q[j]

\* A column after the insert of rows with the ids `ids`; val(i) is row i's value.
ColumnAfterInsert(col, ids, val(_)) ==
    [p \in DOMAIN col \cup {ids[i] : i \in 1..Len(ids)} |->
        IF p \in DOMAIN col THEN col[p]
        ELSE val(CHOOSE i \in 1..Len(ids) : ids[i] = p)]

\* handleImportCSV up to its first store call: the file is read and parsed.
ImportCSV(file) ==
    /\ csvPc = "idle"
    /\ csvImports < MaxImports
    /\ csvImports' = csvImports + 1
    /\ LET parsed == ParseCsv(file, [skusInFile |-> {}, productsToImport |-> <<>>,
                                     duplicatesInFile |-> <<>>])
       IN  /\ csv' = [NoCsv EXCEPT !.lines = file,
                                   !.productsToImport = parsed.productsToImport,
                                   !.duplicatesInFile = parsed.duplicatesInFile]
           /\ IF parsed.productsToImport = <<>>
              THEN csvPc' = "done" /\ csvOutcome' = "novalid"
              ELSE csvPc' = "lookup" /\ csvOutcome' = "pending"
    /\ UNCHANGED <<stockVars, formVars, posVars, productSku, productCategory, bulkVars,
                   accountVars, pageVars>>

\* The select('sku').in('sku', skusToCheck) returns; its error is not read.
CsvLookupDone(ok) ==
    /\ csvPc = "lookup"
    /\ LET existingSkus == ExistingSkus(ok, csv.productsToImport)
           newProducts == SelectSeq(csv.productsToImport,
                                    LAMBDA c : c.sku \notin existingSkus)
       IN  /\ csv' = [csv EXCEPT !.newProducts = newProducts,
                                 !.skipped = SkippedCount(csv.productsToImport, newProducts)]
           /\ IF newProducts = <<>>
              THEN csvPc' = "done" /\ csvOutcome' = "allexist"
              ELSE csvPc' = "insert" /\ UNCHANGED csvOutcome
    /\ UNCHANGED <<stockVars, formVars, posVars, productSku, productCategory, bulkVars,
                   csvImports, accountVars, pageVars>>

\* The insert(newProducts) returns: one statement, all rows or none; the success
\* message carries the three counts.
CsvInsertDone(ok) ==
    /\ csvPc = "insert"
    /\ csvPc' = "done"
    /\ IF ok /\ ProductsSkuUnique(csv.newProducts)
       THEN LET rows == csv.newProducts
                ids == FreshIds(Len(rows))
            IN  /\ products' = products \cup {ids[i] : i \in 1..Len(ids)}
                /\ productSku' = ColumnAfterInsert(productSku, ids, LAMBDA i : rows[i].sku)
                /\ productPrice' = ColumnAfterInsert(productPrice, ids,
                                                     LAMBDA i : rows[i].price)
                /\ productCategory' = ColumnAfterInsert(productCategory, ids, LAMBDA i : "")
                /\ csv' = [csv EXCEPT !.imported = Len(rows),
                                      !.duplicates = Len(csv.duplicatesInFile)]
                /\ csvOutcome' = "success"
       ELSE /\ csvOutcome' = "error"
            /\ UNCHANGED <<products, productSku, productPrice, productCategory, csv>>
    /\ UNCHANGED <<product_variants, stock_logs, formVars, posRest, bulkVars, csvImports,
                   accountVars, pageVars>>

\* handleImportCSV returns after resetting the file input.
CsvReturn ==
    /\ csvPc = "done"
    /\ csvPc' = "idle"
    /\ csv' = NoCsv
    /\ csvOutcome' = "none"
    /\ UNCHANGED <<stockVars, formVars, posVars, productSku, productCategory, bulkVars,
                   csvImports, accountVars, pageVars>>

\* ------------------------------------------------------------------ product form
\* The add/edit dialog of the products page.  A price field is <<>> when it does not
\* parse as a number, else <<cents>>.  The field's min="0" is left out of the inputs:
\* what is submitted reaches handleSubmit, whose own check is modelled.

\* What the form submits: the product being edited ("" = a new product), the sku field
\* and the price field.
ProductForms ==
    {[editing |-> e, sku |-> k, price |-> pr] :
        e \in {"", "p1"}, k \in {"S1", "N1"}, pr \in {<<>>, <<0 - 100>>, <<0>>, <<1500>>}}

NoProductForm == [editing |-> "", sku |-> "", price |-> <<>>]

\* Mutant: the form's price check lets every price through.
ProductPriceNegative_Never(price) == FALSE

\* if (productData.price < 0) { toast.error('Price cannot be negative'); return; }
\* parseFloat of a field that is no number is NaN, and NaN < 0 is false.
ProductPriceNegative(price) == price # <<>> /\ price[1] < 0

\* price decimal(10,2) NOT NULL: a NaN price is sent as null and refused.
ProductPriceNotNull(price) == price # <<>>

\* Products.handleSubmit up to its store call.
ProductSubmit(f) ==
    /\ prodPc = "idle"
    /\ f.editing # "" => f.editing \in products
    /\ f.editing = "" => ImportIds \ DOMAIN productSku # {}
    /\ prodForm' = f
    /\ IF ProductPriceNegative(f.price)
       THEN prodPc' = "done" /\ prodOutcome' = "rejected"
       ELSE prodPc' = "write" /\ prodOutcome' = "pending"
    /\ UNCHANGED <<stockVars, formVars, posVars, catalogVars, accountVars, scanVars, layoutVars>>

\* The update(productData).eq('id', editingProduct.id) or the insert([productData])
\* returns.  The edit form carries the product's own sku.
ProductWriteDone(ok) ==
    /\ prodPc = "write"
    /\ prodPc' = "done"
    /\ IF prodForm.editing # ""
       THEN IF ok /\ ProductPriceNotNull(prodForm.price)
            THEN /\ productPrice' = PricesAfter(productPrice, {prodForm.editing},
                                                prodForm.price)
                 /\ prodOutcome' = "success"
                 /\ UNCHANGED <<products, productSku, productCategory>>
            ELSE /\ prodOutcome' = "error"
                 /\ UNCHANGED <<products, productSku, productCategory, productPrice>>
       ELSE IF /\ ok /\ ProductPriceNotNull(prodForm.price)
               /\ ProductsSkuUnique(<<[sku |-> prodForm.sku]>>)
               /\ ImportIds \ DOMAIN productSku # {}
            THEN LET ids == FreshIds(1)
                 IN  /\ products' = products \cup {ids[1]}
                     /\ productSku' = ColumnAfterInsert(productSku, ids,
                                                        LAMBDA i : prodForm.sku)
                     /\ productPrice' = ColumnAfterInsert(productPrice, ids,
                                                          LAMBDA i : prodForm.price[1])
                     /\ productCategory' = ColumnAfterInsert(productCategory, ids,
                                                             LAMBDA i : "")
                     /\ prodOutcome' = "success"
            ELSE /\ prodOutcome' = "error"
                 /\ UNCHANGED <<products, productSku, productCategory, productPrice>>
    /\ UNCHANGED <<product_variants, stock_logs, formVars, posRest, bulkVars, csvVars,
                   accountVars, prodForm, scanVars, layoutVars>>

\* handleSubmit returns; the dialog accepts the next submit.
ProductReturn ==
    /\ prodPc = "done"
    /\ prodPc' = "idle"
    /\ prodForm' = NoProductForm
    /\ prodOutcome' = "none"
    /\ UNCHANGED <<stockVars, formVars, posVars, catalogVars, accountVars, scanVars, layoutVars>>

\* ------------------------------------------------------------------ keyboard scanner
\* The keypress listener of the point of sale.  The effect that registers it depends
\* on [keyboardBuffer, products]: after a render that changed keyboardBuffer its
\* cleanup runs (removeEventListener, clearTimeout(timeoutId)) and the listener of
\* the new render is registered.  The listener calls the handleBarcodeScanned, and
\* through it the addToCart and the cart, of the render it was registered in.

MaxBuffer == 3       \* most keys buffered

ScanKeys == {"S", "s", "1"}

\* String.toLowerCase, per character.
ToLowerCase(text) == [i \in 1..Len(text) |-> IF text[i] = "S" THEN "s" ELSE text[i]]

\* The characters of a stored SKU.
SkuText(sku) ==
    CASE sku = "S1" -> <<"S", "1">>
      [] sku = "S2" -> <<"S", "2">>
      [] OTHER -> <<"S", "3">>

\* products.find(p => p.sku.toLowerCase() === barcode.toLowerCase()): "" when none.
FindBySku(barcode) ==
    LET found == {p \in products :
                     ToLowerCase(SkuText(productSku[p])) = ToLowerCase(barcode)}
    IN  IF found = {} THEN "" ELSE CHOOSE p \in found : TRUE

\* Mutant: the cleanup of the effect leaves the timer armed.

\* clearTimeout(timeoutId) of the effect's cleanup.
TimerAfterCleanup(armed) == FALSE

\* Mutant: the listener always sees the current cart.

\* The cart the registered listener's addToCart reads.
ListenerCart == lsnCart

\* A one-character key pressed outside an input field: it is appended to the buffer
\* and the inactivity timer is re-armed.
KeyPress(c) ==
    /\ ~effectPending
    /\ Len(keyboardBuffer) < MaxBuffer
    /\ keyboardBuffer' = Append(keyboardBuffer, c)
    /\ scanTimer' = TRUE
    /\ effectPending' = TRUE
    /\ entry' = IF idle100 THEN <<c>> ELSE Append(entry, c)
    /\ idle100' = FALSE
    /\ UNCHANGED <<stockVars, formVars, posVars, catalogVars, accountVars, productFormVars, layoutVars,
                   lsnCart>>

\* Enter pressed outside an input field with a non-empty buffer:
\* handleBarcodeScanned(keyboardBuffer), then setKeyboardBuffer('').
EnterPress ==
    /\ ~effectPending
    /\ posPc = "idle"
    /\ keyboardBuffer # <<>>
    /\ LET p == FindBySku(keyboardBuffer)
       IN  IF p = ""
           THEN UNCHANGED cart
           ELSE /\ CartIndex(ListenerCart, p) # 0 =>
                      ListenerCart[CartIndex(ListenerCart, p)].quantity < MaxQty
                /\ cart' = addToCart(ListenerCart, p, productPrice[p])
    /\ keyboardBuffer' = <<>>
    /\ effectPending' = TRUE
    /\ entry' = <<>>
    /\ idle100' = FALSE
    /\ UNCHANGED <<stockVars, formVars, posStoreVars, settingsVars, customerName, phoneNumber,
                   paymentMethod, posPc, sale, posWrites, posOutcome, catalogVars,
                   accountVars, productFormVars, layoutVars, scanTimer, lsnCart>>

\* The effect re-runs after the render that changed keyboardBuffer: the cleanup
\* clears the timer, and the listener of the new render is registered.
EffectRerun ==
    /\ effectPending
    /\ effectPending' = FALSE
    /\ scanTimer' = TimerAfterCleanup(scanTimer)
    /\ lsnCart' = cart
    /\ UNCHANGED <<stockVars, formVars, posVars, catalogVars, accountVars, productFormVars, layoutVars,
                   keyboardBuffer, idle100, entry>>

\* The inactivity timer fires, 100 ms after the key that armed it:
\* setKeyboardBuffer('').
TimerFire ==
    /\ scanTimer
    /\ scanTimer' = FALSE
    /\ keyboardBuffer' = <<>>
    /\ effectPending' = (effectPending \/ keyboardBuffer # <<>>)
    /\ idle100' = TRUE
    /\ UNCHANGED <<stockVars, formVars, posVars, catalogVars, accountVars, productFormVars, layoutVars,
                   lsnCart, entry>>

\* 100 ms pass without a key.  An armed timer fires first, and a pending effect runs
\* first.
Idle100ms ==
    /\ ~scanTimer /\ ~effectPending
    /\ ~idle100
    /\ idle100' = TRUE
    /\ UNCHANGED <<stockVars, formVars, posVars, catalogVars, accountVars, productFormVars, layoutVars,
                   keyboardBuffer, scanTimer, effectPending, lsnCart, entry>>

\* ------------------------------------------------------------------ accounts
\* A sign-up is a transaction on auth.users: the insert fires handle_new_user, which
\* counts the rows of auth.users it can see (the committed ones and its own) and
\* inserts the profile and the role; then the transaction commits.

MaxCreations == 4    \* most sign-ups and deletions explored

Users == {"u1", "u2", "u3"}
Roles == {"admin", "user"}

\* Mutant: the first two accounts are taken for the first.
IsFirstUser_UpToTwo(user_count) == user_count <= 2

\* IF user_count = 1 THEN ... 'admin' ELSE ... 'user'
IsFirstUser(user_count) == user_count = 1

\* The profiles row handle_new_user inserts.
ProfileRow(u) == [table |-> "profiles", id |-> u, val |-> "a"]

\* INSERT INTO auth.users in a new transaction; the trigger runs up to its count.
SignUpInsert(u) ==
    /\ u \in Users \ (auth_users \cup DOMAIN signups)
    /\ Len(creations) + Cardinality(DOMAIN signups) < MaxCreations
    /\ signups' = [t \in DOMAIN signups \cup {u} |->
                      IF t = u
                      THEN [user_count |-> Cardinality(auth_users) + 1,
                            overlapped |-> DOMAIN signups # {}]
                      ELSE [signups[t] EXCEPT !.overlapped = TRUE]]
    /\ UNCHANGED <<stockVars, formVars, posVars, catalogVars, pageVars, auth_users, user_roles,
                   creations, appRows, lastCall>>

\* The trigger inserts the role it decided on and the transaction commits.
SignUpCommit(u) ==
    /\ u \in DOMAIN signups
    /\ LET role == IF IsFirstUser(signups[u].user_count) THEN "admin" ELSE "user"
       IN  /\ user_roles' = user_roles \cup {<<u, role>>}
           /\ creations' = Append(creations, [user |-> u, role |-> role,
                                              overlapped |-> signups[u].overlapped])
    /\ auth_users' = auth_users \cup {u}
    /\ appRows' = appRows \cup {ProfileRow(u)}
    /\ signups' = Without(signups, {u})
    /\ UNCHANGED <<stockVars, formVars, posVars, catalogVars, pageVars, lastCall>>

\* DELETE FROM auth.users: user_roles.user_id and profiles.id are ON DELETE CASCADE.
DeleteUser(u) ==
    /\ u \in auth_users
    /\ Len(creations) + Cardinality(DOMAIN signups) < MaxCreations
    /\ auth_users' = auth_users \ {u}
    /\ user_roles' = {r \in user_roles : r[1] # u}
    /\ appRows' = {r \in appRows : ~(r.table = "profiles" /\ r.id = u)}
    /\ creations' = Append(creations, [user |-> u, role |-> "deleted",
                                       overlapped |-> FALSE])
    /\ UNCHANGED <<stockVars, formVars, posVars, catalogVars, pageVars, signups, lastCall>>

\* ------------------------------------------------------------------ row-level security
\* A request through the API runs as the caller: a signed-in user's id, or Anon with
\* auth.uid() null.  A row is [table, id, val]; a user_roles row has the user's id
\* as id and the role as val, a profiles row the user's id as id.

MaxAppRows == 1      \* most rows of the tables other than user_roles and profiles

Anon == "anon"
RowIds == {"r1"}
AppTables == {"categories", "products", "product_variants", "sales", "sale_items",
              "stock_logs", "returns", "return_items", "credits", "shop_settings",
              "customers", "suppliers", "purchase_orders", "purchase_order_items",
              "expenses"}
Tables == AppTables \cup {"user_roles", "profiles"}
Commands == {"SELECT", "INSERT", "UPDATE", "DELETE"}

\* The CREATE POLICY statements: the command each is FOR and its USING expression,
\* "admin" for has_role(auth.uid(), 'admin'), "own" for auth.uid() = the row's user.
Policies ==
    {[table |-> "user_roles", cmd |-> "SELECT", using |-> "own"],
     [table |-> "user_roles", cmd |-> "ALL", using |-> "admin"],
     [table |-> "profiles", cmd |-> "SELECT", using |-> "own"],
     [table |-> "profiles", cmd |-> "SELECT", using |-> "admin"]}
    \cup {[table |-> t, cmd |-> "ALL", using |-> "admin"] : t \in AppTables}

\* public.has_role(_user_id, _role)
has_role(user_id, role) == <<user_id, role>> \in user_roles

\* The user a row belongs to: user_roles.user_id, profiles.id; no one elsewhere.
RowOwner(row) == IF row.table \in {"user_roles", "profiles"} THEN row.id ELSE ""

\* Mutant: the admin policies admit every signed-in caller.
PolicyHolds_SignedIn(using, caller, row) == caller # Anon

\* A policy's USING expression (also its WITH CHECK) for the caller and the row.
PolicyHolds(using, caller, row) ==
    IF using = "admin" THEN has_role(caller, "admin")
                       ELSE caller # Anon /\ caller = RowOwner(row)

\* Row-level security: some policy FOR the command, or FOR ALL, admits the row.
Permitted(caller, cmd, row) ==
    \E pol \in Policies :
        /\ pol.table = row.table
        /\ pol.cmd \in {"ALL", cmd}
        /\ PolicyHolds(pol.using, caller, row)

\* The rows of user_roles, and all the rows of the store.
RoleRows == {[table |-> "user_roles", id |-> r[1], val |-> r[2]] : r \in user_roles}
StoreRows == appRows \cup RoleRows

\* The value an UPDATE of the row writes.
OtherVal(row) ==
    IF row.table = "user_roles" THEN (IF row.val = "admin" THEN "user" ELSE "admin")
                                ELSE (IF row.val = "a" THEN "b" ELSE "a")

\* Primary keys, UNIQUE (user_id, role) and the references to auth.users.
InsertConstraints(row) ==
    /\ row \notin StoreRows
    /\ row.table # "user_roles" => \A r \in StoreRows : ~(r.table = row.table /\ r.id = row.id)
    /\ row.table \in {"user_roles", "profiles"} => row.id \in auth_users

\* The rows of the store after the caller's command on the row.
RowsAfter(caller, cmd, row) ==
    CASE cmd = "INSERT" ->
             IF Permitted(caller, cmd, row) /\ InsertConstraints(row)
             THEN StoreRows \cup {row} ELSE StoreRows
      [] cmd = "UPDATE" ->
             IF /\ row \in StoreRows
                /\ Permitted(caller, cmd, row)
                /\ [row EXCEPT !.val = OtherVal(row)] \notin StoreRows
             THEN (StoreRows \ {row}) \cup {[row EXCEPT !.val = OtherVal(row)]}
             ELSE StoreRows
      [] cmd = "DELETE" ->
             IF row \in StoreRows /\ Permitted(caller, cmd, row)
             THEN StoreRows \ {row} ELSE StoreRows
      [] OTHER -> StoreRows

\* The rows a SELECT on the table returns to the caller.
RowsVisible(caller, table) ==
    {r \in StoreRows : r.table = table /\ Permitted(caller, "SELECT", r)}

NoCall == [caller |-> Anon, cmd |-> "SELECT", changed |-> FALSE]

\* What a caller can send: any command on any table, for a row [table, id, val].
RequestRows ==
    {[table |-> "user_roles", id |-> u, val |-> r] : u \in Users, r \in Roles}
    \cup {[table |-> "profiles", id |-> u, val |-> "a"] : u \in Users}
    \cup {[table |-> t, id |-> i, val |-> v] : t \in AppTables, i \in RowIds, v \in {"a", "b"}}

\* One request of the caller through the API: a select of the row's table, which
\* returns RowsVisible and changes nothing, or an insert, update or delete of the row.
StoreCall(caller, cmd, row) ==
    /\ caller \in auth_users \cup {Anon}
    /\ LET after == RowsAfter(caller, cmd, row)
       IN  /\ Cardinality({r \in after : r.table \in AppTables}) <= MaxAppRows
           /\ user_roles' = {<<r.id, r.val>> : r \in {x \in after : x.table = "user_roles"}}
           /\ appRows' = {r \in after : r.table # "user_roles"}
           /\ lastCall' = [caller |-> caller, cmd |-> cmd, changed |-> after # StoreRows]
    /\ UNCHANGED <<stockVars, formVars, posVars, catalogVars, pageVars, auth_users, signups,
                   creations>>

\* ------------------------------------------------------------------ application layout

\* AppLayout: the session check, the auth-state-change callbacks and the role
\* lookups of one mounted layout.  "" stands for null: no session, no user, no
\* role.

MaxAuthEvents == 3

\* The sessions the auth client can hold: nobody, or one of the accounts.
AuthSessions == {"", "u1", "u2"}

\* checkUserRole of lib/auth: the role the role table holds for the user, null
\* when the read fails or the user has no row.
checkUserRole(userId, ok) ==
    IF ok /\ has_role(userId, "admin") THEN "admin"
    ELSE IF ok /\ has_role(userId, "user") THEN "user"
    ELSE ""

\* The layout right after it was mounted while the auth client holds session s:
\* the state of useState, setupAuth started, the callback subscribed and the
\* client's initial event waiting for it.
MountedLayout(s) ==
    /\ authSession = s
    /\ authEvents = <<s>>
    /\ layMounted = TRUE
    /\ layUser = ""
    /\ userRole = ""
    /\ loading = TRUE
    /\ sessionCheck = TRUE
    /\ roleLookups = {}

\* The render guard: the spinner while loading, nothing without a user or
\* without the admin role, the page otherwise.
ContentShown == layMounted /\ ~loading /\ layUser # "" /\ userRole = "admin"

\* supabase.auth.signOut(): the session ends, and a held session's end is
\* announced to the subscribers.
EventsAfterSignOut == IF authSession = "" THEN authEvents ELSE Append(authEvents, "")

\* A state setter of the layout; on an unmounted layout it does nothing.
SetState(old, new) == IF layMounted THEN new ELSE old

\* The auth client's session changes outside the layout: a sign-out in another
\* tab of the browser, or a sign-in there once nobody is signed in; the
\* subscribers are told.
AuthStateChange(s) ==
    /\ s # authSession
    /\ s = "" \/ authSession = ""
    /\ Len(authEvents) < MaxAuthEvents
    /\ authSession' = s
    /\ authEvents' = Append(authEvents, s)
    /\ UNCHANGED <<layMounted, layUser, userRole, loading, sessionCheck, roleLookups>>
    /\ UNCHANGED <<stockVars, formVars, posVars, adminVars0>>

\* The callback given to onAuthStateChange, up to its await or its end.
AuthCallback ==
    /\ authEvents # <<>>
    /\ authEvents' = Tail(authEvents)
    /\ IF Head(authEvents) # ""
       THEN /\ layUser' = SetState(layUser, Head(authEvents))
            /\ roleLookups' = roleLookups \cup {Head(authEvents)}
            /\ UNCHANGED <<userRole, loading, layMounted>>
       ELSE /\ layUser' = SetState(layUser, "")
            /\ userRole' = SetState(userRole, "")
            /\ loading' = SetState(loading, FALSE)
            /\ layMounted' = FALSE
            /\ UNCHANGED roleLookups
    /\ UNCHANGED <<authSession, sessionCheck>>
    /\ UNCHANGED <<stockVars, formVars, posVars, adminVars0>>

\* setupAuth after getSession answered, up to its await or its end.
SessionCheckDone ==
    /\ sessionCheck
    /\ sessionCheck' = FALSE
    /\ IF authSession # ""
       THEN /\ layUser' = SetState(layUser, authSession)
            /\ roleLookups' = roleLookups \cup {authSession}
            /\ UNCHANGED <<loading, layMounted>>
       ELSE /\ loading' = SetState(loading, FALSE)
            /\ layMounted' = FALSE
            /\ UNCHANGED <<layUser, roleLookups>>
    /\ UNCHANGED <<authSession, authEvents, userRole>>
    /\ UNCHANGED <<stockVars, formVars, posVars, adminVars0>>

\* The rest of the callback or of setupAuth once checkUserRole answered.
RoleLookupDone(u, ok) ==
    /\ u \in roleLookups
    /\ roleLookups' = roleLookups \ {u}
    /\ userRole' = SetState(userRole, checkUserRole(u, ok))
    /\ loading' = SetState(loading, FALSE)
    /\ IF checkUserRole(u, ok) # "admin"
       THEN /\ authSession' = ""
            /\ authEvents' = EventsAfterSignOut
            /\ layMounted' = FALSE
       ELSE UNCHANGED <<authSession, authEvents, layMounted>>
    /\ UNCHANGED <<layUser, sessionCheck>>
    /\ UNCHANGED <<stockVars, formVars, posVars, adminVars0>>

\* A link of the sidebar: the location changes to another protected page, the
\* effect runs again and starts setupAuth again.
NavigateProtected ==
    /\ ContentShown
    /\ ~sessionCheck
    /\ sessionCheck' = TRUE
    /\ UNCHANGED <<authSession, authEvents, layMounted, layUser, userRole, loading,
                   roleLookups>>
    /\ UNCHANGED <<stockVars, formVars, posVars, adminVars0>>

\* The Sign Out button of the layout.
handleSignOut ==
    /\ ContentShown
    /\ authSession' = ""
    /\ authEvents' = EventsAfterSignOut
    /\ layMounted' = FALSE
    /\ UNCHANGED <<layUser, userRole, loading, sessionCheck, roleLookups>>
    /\ UNCHANGED <<stockVars, formVars, posVars, adminVars0>>

\* ------------------------------------------------------------------ specification

\* The forms as the pages mount them.
InitPages ==
    /\ selectedProduct = [s \in Sessions |-> ""]
    /\ selectedVariant = [s \in Sessions |-> ""]
    /\ currentStock = [s \in Sessions |-> <<>>]
    /\ pc = [s \in Sessions |-> "idle"]
    /\ attempt = [s \in Sessions |-> NoAttempt]
    /\ writes = [s \in Sessions |-> <<>>]
    /\ outcome = [s \in Sessions |-> "none"]
    /\ shopSettings = 0
    /\ cart = <<>>
    /\ customerName = ""
    /\ phoneNumber = ""
    /\ paymentMethod = "cash"
    /\ posPc = "idle"
    /\ sale = 0
    /\ posWrites = <<>>
    /\ posOutcome = "none"
    /\ bulkPc = "idle"
    /\ bulk = NoBulk
    /\ bulkFetched = <<>>
    /\ bulkOutcome = "none"
    /\ bulkEdits = 0
    /\ csvPc = "idle"
    /\ csv = NoCsv
    /\ csvOutcome = "none"
    /\ csvImports = 0
    /\ signups = <<>>
    /\ lastCall = NoCall
    /\ prodPc = "idle"
    /\ prodForm = NoProductForm
    /\ prodOutcome = "none"
    /\ keyboardBuffer = <<>>
    /\ scanTimer = FALSE
    /\ effectPending = FALSE
    /\ lsnCart = <<>>
    /\ idle100 = TRUE
    /\ entry = <<>>

\* The pages inside a layout that was mounted without a session.
InitForms ==
    /\ InitPages
    /\ MountedLayout("")

\* The sku and category_id columns of the catalogue's products.
InitColumns ==
    /\ productSku = [p \in CatalogProductIds |->
                        CASE p = "p1" -> "S1" [] p = "p2" -> "S2" [] OTHER -> "S3"]
    /\ productCategory = [p \in CatalogProductIds |-> "c1"]

\* The accounts of a shop in use: its first user, the admin.
InitAdminAccount ==
    /\ auth_users = {"u1"}
    /\ user_roles = {<<"u1", "admin">>}
    /\ creations = <<[user |-> "u1", role |-> "admin", overlapped |-> FALSE]>>
    /\ appRows = {ProfileRow("u1")}

\* The tables the application fills, empty; shop_settings as the migration leaves it.
InitEmptyTables ==
    /\ product_variants = <<>>
    /\ stock_logs = <<>>
    /\ sales = <<>>
    /\ sale_items = <<>>
    /\ customers = {}
    /\ shop_settings = <<[tax_rate |-> 5]>>

Init ==
    /\ InitForms
    /\ InitColumns
    /\ InitAdminAccount
    /\ InitEmptyTables
    /\ products = StockProducts
    /\ productPrice = Catalogues[1]

Next ==
    \/ \E s \in Sessions, v \in VariantIds, ok \in BOOLEAN : SelectVariant(s, v, ok)
    \/ \E s \in Sessions : ResetForm(s)
    \/ \E s \in Sessions, type \in AdjustmentTypes, n \in QuantityInputs, user \in BOOLEAN :
           HandleAdjustment(s, type, n, user)
    \/ \E s \in Sessions, ok \in BOOLEAN : UpdateVariantDone(s, ok)
    \/ \E s \in Sessions, ok \in BOOLEAN, okLoad \in BOOLEAN : InsertStockLogDone(s, ok, okLoad)
    \/ \E s \in Sessions : AdjustmentFinally(s)
    \/ \E v \in VariantIds, p \in ProductIds, n \in QuantityInputs, ok \in BOOLEAN :
           CreateVariant(v, p, n, ok)
    \/ \E v \in VariantIds, n \in QuantityInputs, ok \in BOOLEAN : EditVariant(v, n, ok)
    \/ \E v \in VariantIds, ok \in BOOLEAN : DeleteVariant(v, ok)
    \/ \E p \in ProductIds, ok \in BOOLEAN : DeleteProduct(p, ok)

Spec == Init /\ [][Next]_vars

\* The stock specification from a store that already holds a variant and a
\* stock-log row of a type the schema admits ('in').
SeedLog == [product_id |-> "p1", variant_id |-> "v1", type |-> "in", quantity |-> 1]

InitSeeded ==
    /\ InitForms
    /\ InitColumns
    /\ InitAdminAccount
    /\ products = StockProducts
    /\ productPrice = Catalogues[1]
    /\ product_variants = [v \in {"v1"} |-> [product_id |-> "p1", quantity |-> 1]]
    /\ stock_logs = <<SeedLog>>
    /\ sales = <<>>
    /\ sale_items = <<>>
    /\ customers = {}
    /\ shop_settings = <<[tax_rate |-> 5]>>

SpecSeeded == InitSeeded /\ [][Next]_vars

\* The stock adjustment form of a single session, from the seeded store.
SoloSession == "s1"

NextSolo ==
    \/ \E v \in VariantIds, ok \in BOOLEAN : SelectVariant(SoloSession, v, ok)
    \/ ResetForm(SoloSession)
    \/ \E type \in AdjustmentTypes, n \in QuantityInputs, user \in BOOLEAN :
           HandleAdjustment(SoloSession, type, n, user)
    \/ \E ok \in BOOLEAN : UpdateVariantDone(SoloSession, ok)
    \/ \E ok \in BOOLEAN, okLoad \in BOOLEAN : InsertStockLogDone(SoloSession, ok, okLoad)
    \/ AdjustmentFinally(SoloSession)

SpecSolo == InitSeeded /\ [][NextSolo]_vars

\* The point of sale and the settings page, from a store that holds the products, a
\* variant of p1 in stock and the stock-log row of its receipt.
InitPOS ==
    /\ InitForms
    /\ InitColumns
    /\ InitAdminAccount
    /\ product_variants = [v \in {"v1"} |-> [product_id |-> "p1", quantity |-> MaxStock]]
    /\ stock_logs = <<SeedLog>>
    /\ sales = <<>>
    /\ sale_items = <<>>
    /\ customers = {}
    /\ shop_settings = <<[tax_rate |-> 5]>>
    /\ products = ProductIds
    /\ productPrice \in {Catalogues[i] : i \in 1..Len(Catalogues)}

NextPOS ==
    \/ \E p \in ProductIds : AddToCart(p)
    \/ \E p \in ProductIds : DecrementQuantity(p)
    \/ \E p \in ProductIds : RemoveFromCart(p)
    \/ \E e \in CustomerEntries : SetCustomerFields(e[1], e[2], e[3])
    \/ \E user \in BOOLEAN : HandleCheckout(user)
    \/ \E ok \in BOOLEAN : InsertSaleDone(ok)
    \/ \E ok \in BOOLEAN : InsertCustomerDone(ok)
    \/ \E ok \in BOOLEAN : InsertSaleItemsDone(ok)
    \/ CheckoutFinally
    \/ \E ok \in BOOLEAN : LoadShopSettings(ok)
    \/ \E rate \in TaxRateInputs, ok \in BOOLEAN, okLoad \in BOOLEAN :
           SaveShopSettings(rate, ok, okLoad)

SpecPOS == InitPOS /\ [][NextPOS]_vars

\* The products page, from a store that holds three products, a variant of p2 and a
\* sale of p1.
InitCatalog ==
    /\ InitForms
    /\ InitColumns
    /\ InitAdminAccount
    /\ products = CatalogProductIds
    /\ productPrice = [p \in CatalogProductIds |->
                          CASE p = "p1" -> 10000 [] p = "p2" -> 5000 [] OTHER -> 2000]
    /\ product_variants = [v \in {"v1"} |-> [product_id |-> "p2", quantity |-> 1]]
    /\ stock_logs = <<>>
    /\ sales = <<[id |-> 1, tax_amount |-> 500, total_amount |-> 10500,
                  settings_rate |-> 5]>>
    /\ sale_items = SaleItemRows(<<[product |-> "p1", price |-> 10000, quantity |-> 1,
                                    total |-> 10000]>>, 1)
    /\ customers = {}
    /\ shop_settings = <<[tax_rate |-> 5]>>

NextCatalog ==
    \/ \E ids \in BulkSelections, f \in BulkForms : BulkSubmit(ids, f)
    \/ \E ok \in BOOLEAN : BulkSetDone(ok)
    \/ \E ok \in BOOLEAN : BulkCategoryDone(ok)
    \/ \E ok \in BOOLEAN, order \in Orders(bulk.selectedIds \cap products) :
           BulkFetchDone(ok, order)
    \/ \E ok \in BOOLEAN : BulkUpdateDone(ok)
    \/ BulkReturn
    \/ \E p \in CatalogProductIds, ok \in BOOLEAN : DeleteProduct(p, ok)

SpecCatalog == InitCatalog /\ [][NextCatalog]_vars

\* The CSV import of the products page, from the same store.
NextImport ==
    \/ \E file \in CsvFiles : ImportCSV(file)
    \/ \E ok \in BOOLEAN : CsvLookupDone(ok)
    \/ \E ok \in BOOLEAN : CsvInsertDone(ok)
    \/ CsvReturn
    \/ \E p \in CatalogProductIds, ok \in BOOLEAN : DeleteProduct(p, ok)

SpecImport == InitCatalog /\ [][NextImport]_vars

MaxPageOps == 2      \* most bulk edits and imports together, where both are explored

\* No handler of the products page is in flight.
PageIdle == prodPc = "idle" /\ bulkPc = "idle" /\ csvPc = "idle"

\* The page has bulk edits and imports left to explore.
PageOpsLeft == bulkEdits + csvImports < MaxPageOps

\* The products page of one session with its three ways of writing a price: the
\* product form, the bulk edit and the CSV import, one handler at a time.
NextPrices ==
    \/ \E f \in ProductForms : PageIdle /\ ProductSubmit(f)
    \/ \E ok \in BOOLEAN : ProductWriteDone(ok)
    \/ ProductReturn
    \/ \E ids \in BulkSelections, f \in BulkForms : PageIdle /\ PageOpsLeft /\ BulkSubmit(ids, f)
    \/ \E ok \in BOOLEAN : BulkSetDone(ok)
    \/ \E ok \in BOOLEAN : BulkCategoryDone(ok)
    \/ \E ok \in BOOLEAN, order \in Orders(bulk.selectedIds \cap products) :
           BulkFetchDone(ok, order)
    \/ \E ok \in BOOLEAN : BulkUpdateDone(ok)
    \/ BulkReturn
    \/ \E file \in CsvFiles : PageIdle /\ PageOpsLeft /\ ImportCSV(file)
    \/ \E ok \in BOOLEAN : CsvLookupDone(ok)
    \/ \E ok \in BOOLEAN : CsvInsertDone(ok)
    \/ CsvReturn

SpecPrices == InitCatalog /\ [][NextPrices]_vars

\* The cart of the point of sale with its buttons and its keyboard scanner, from the
\* store of the point-of-sale specification.  An input event is handled after the
\* effects of the render before it have run.
NextScan ==
    \/ \E p \in ProductIds : ~effectPending /\ AddToCart(p)
    \/ \E p \in ProductIds : ~effectPending /\ DecrementQuantity(p)
    \/ \E p \in ProductIds : ~effectPending /\ RemoveFromCart(p)
    \/ \E c \in ScanKeys : KeyPress(c)
    \/ EnterPress
    \/ EffectRerun
    \/ TimerFire
    \/ Idle100ms

SpecScan == InitPOS /\ [][NextScan]_vars

\* Sign-ups and account deletions, from a project without accounts.
InitAccounts ==
    /\ InitForms
    /\ InitColumns
    /\ InitEmptyTables
    /\ products = StockProducts
    /\ productPrice = Catalogues[1]
    /\ auth_users = {}
    /\ user_roles = {}
    /\ creations = <<>>
    /\ appRows = {}

NextAccounts ==
    \/ \E u \in Users : SignUpInsert(u)
    \/ \E u \in Users : SignUpCommit(u)
    \/ \E u \in Users : DeleteUser(u)

SpecAccounts == InitAccounts /\ [][NextAccounts]_vars

\* Requests through the API, from a store with an admin, a user and a product row.
InitPolicies ==
    /\ InitForms
    /\ InitColumns
    /\ InitEmptyTables
    /\ products = StockProducts
    /\ productPrice = Catalogues[1]
    /\ auth_users = {"u1", "u2"}
    /\ user_roles = {<<"u1", "admin">>, <<"u2", "user">>}
    /\ creations = <<[user |-> "u1", role |-> "admin", overlapped |-> FALSE],
                     [user |-> "u2", role |-> "user", overlapped |-> FALSE]>>
    /\ appRows = {ProfileRow("u1"), ProfileRow("u2"),
                  [table |-> "products", id |-> "r1", val |-> "a"]}

NextPolicies ==
    \E caller \in Users \cup {Anon}, cmd \in Commands, row \in RequestRows :
        StoreCall(caller, cmd, row)

SpecPolicies == InitPolicies /\ [][NextPolicies]_vars

\* The layout alone, mounted under any session, over two accounts: an admin and
\* a standard user.
InitLayout ==
    /\ InitPages
    /\ InitColumns
    /\ InitEmptyTables
    /\ products = StockProducts
    /\ productPrice = Catalogues[1]
    /\ auth_users = {"u1", "u2"}
    /\ user_roles = {<<"u1", "admin">>, <<"u2", "user">>}
    /\ creations = <<[user |-> "u1", role |-> "admin", overlapped |-> FALSE],
                     [user |-> "u2", role |-> "user", overlapped |-> FALSE]>>
    /\ appRows = {ProfileRow("u1"), ProfileRow("u2")}
    /\ \E s \in AuthSessions : MountedLayout(s)

NextLayout ==
    \/ \E s \in AuthSessions : AuthStateChange(s)
    \/ AuthCallback
    \/ SessionCheckDone
    \/ \E u \in Users, ok \in BOOLEAN : RoleLookupDone(u, ok)
    \/ NavigateProtected
    \/ handleSignOut

SpecLayout == InitLayout /\ [][NextLayout]_vars

\* ------------------------------------------------------------------ claims

\* Session s's quantity update is accepted by the store in this step.
QuantityWritten(s) ==
    /\ pc[s] = "update" /\ pc'[s] = "log"
    /\ attempt[s].variant \in DOMAIN product_variants

\* The stored quantity of variant v.
Stored(v) == product_variants[v].quantity

\* C1: a stock adjustment whose quantity update the store accepts leaves the
\* variant's stored quantity at q+v for add, q-v for remove and v for set, q being
\* the quantity stored when the update arrives.
C1_StoredPlusValue ==
    [][\A s \in Sessions : QuantityWritten(s) =>
          LET a == attempt[s]
              q == Stored(a.variant)
          IN  product_variants'[a.variant].quantity =
                  CASE a.type = "add" -> q + a.qty
                    [] a.type = "remove" -> q - a.qty
                    [] a.type = "set" -> a.qty]_vars

\* The adjustments whose computed quantity is negative: remove with v > q, set with v < 0.
NegativeCase(a) ==
    \/ a.type = "remove" /\ a.qty > a.base
    \/ a.type = "set" /\ a.qty < 0

\* C2: an adjustment whose computed new quantity is negative is rejected with no
\* write: it issues neither the variant update nor the stock-log insert, and the
\* step that rejects it leaves the stored quantities and the stock log as they were.
C2_NegativeRejectedNoWrite ==
    /\ [](\A s \in Sessions : (pc[s] # "idle" /\ NegativeCase(attempt[s])) =>
            /\ pc[s] = "done"
            /\ outcome[s] \in {"rejected", "error"}
            /\ writes[s] = <<>>)
    /\ [][\A s \in Sessions : (pc[s] = "idle" /\ pc'[s] # "idle" /\ NegativeCase(attempt'[s])) =>
            /\ product_variants' = product_variants
            /\ stock_logs' = stock_logs]_vars

\* C2 witness: remove of more than the stock is rejected, the stored quantity stays.
C2_Witness ==
    \E s \in Sessions :
        /\ pc[s] = "done" /\ outcome[s] = "rejected"
        /\ attempt[s].type = "remove" /\ attempt[s].qty > attempt[s].base
        /\ attempt[s].variant \in DOMAIN product_variants
        /\ Stored(attempt[s].variant) = attempt[s].base
        /\ attempt[s].base > 0
        /\ writes[s] = <<>>

\* C3: every stored variant quantity is >= 0 in every reachable state.
C3_QuantityNonNegative ==
    \A v \in DOMAIN product_variants : Stored(v) >= 0

\* C3 witness: a remove down to zero has been written over a created variant while
\* another session's adjustment of the same variant is also under way.
C3_Witness ==
    \E s, t \in Sessions :
        /\ s # t
        /\ pc[s] = "log" /\ attempt[s].type = "remove" /\ attempt[s].qty > 0
        /\ pc[t] = "update" /\ attempt[t].type = "remove"
        /\ attempt[s].variant \in DOMAIN product_variants
        /\ Stored(attempt[s].variant) = 0

C5_NoRollback ==
    /\ [](\A s \in Sessions :
            LET w == writes[s]
            IN  /\ (Len(w) >= 1 /\ ~w[1].ok) => (Len(w) = 1 /\ outcome[s] = "error")
                /\ (Len(w) >= 2 /\ ~w[2].ok) => (Len(w) = 2 /\ w[1].ok /\ outcome[s] = "error"))
    /\ [][\A s \in Sessions : (pc[s] = "log" /\ pc'[s] = "done" /\ outcome'[s] = "error") =>
            /\ product_variants' = product_variants
            /\ stock_logs' = stock_logs]_vars

\* C5 witness: the update stored a new quantity, the log insert failed, the attempt
\* ended in an error, and the store holds the new quantity with no log row.
C5_Witness ==
    \E s \in Sessions :
        /\ pc[s] = "done" /\ outcome[s] = "error"
        /\ Len(writes[s]) = 2 /\ writes[s][1].ok /\ ~writes[s][2].ok
        /\ attempt[s].variant \in DOMAIN product_variants
        /\ Stored(attempt[s].variant) = attempt[s].newQuantity
        /\ attempt[s].newQuantity # attempt[s].base
        /\ stock_logs = <<>>

\* C6: the stock log only grows: every row stored before a step is stored, at the
\* same place, after it.
C6_AppendOnly ==
    [][/\ Len(stock_logs') >= Len(stock_logs)
       /\ \A i \in 1..Len(stock_logs) : stock_logs'[i] = stock_logs[i]]_vars

\* C7: when two sessions computed an add or remove from the same loaded quantity c
\* for the same variant and the first one's update is stored, the second one's update
\* stores c+v or c-v of its own adjustment alone, whatever the row holds.
C7_LaterWriteOverwrites ==
    [][\A s, t \in Sessions :
          (/\ s # t
           /\ pc[s] = "log"
           /\ QuantityWritten(t)
           /\ attempt[s].variant = attempt[t].variant
           /\ attempt[s].base = attempt[t].base
           /\ attempt[s].type \in {"add", "remove"}
           /\ attempt[t].type \in {"add", "remove"}) =>
          product_variants'[attempt[t].variant].quantity =
              IF attempt[t].type = "add" THEN attempt[t].base + attempt[t].qty
                                         ELSE attempt[t].base - attempt[t].qty]_vars

\* C7 witness (a lost update): both sessions added 1 to the same loaded quantity, both
\* updates are stored, and the row holds that quantity + 1.
C7_Witness ==
    \E s, t \in Sessions :
        /\ s # t
        /\ pc[s] = "log" /\ pc[t] = "log"
        /\ writes[s][1].ok /\ writes[t][1].ok
        /\ attempt[s].variant = attempt[t].variant
        /\ attempt[s].variant \in DOMAIN product_variants
        /\ attempt[s].type = "add" /\ attempt[t].type = "add"
        /\ attempt[s].qty = 1 /\ attempt[t].qty = 1
        /\ attempt[s].base = attempt[t].base
        /\ Stored(attempt[s].variant) = attempt[s].base + 1

\* The sum of the line totals of a cart, in cents.
RECURSIVE SumOfLineTotals(_, _)
SumOfLineTotals(c, n) == IF n = 0 THEN 0 ELSE SumOfLineTotals(c, n - 1) + c[n].total

\* The header insert of the checkout in progress has been issued and the cart it was
\* computed from is still in the form.
HeaderIssued == Len(posWrites) >= 1 /\ posOutcome # "success"

\* C8: the header insert carries tax = 5% of the sum of the line totals and
\* total = that sum + tax = that sum x 1.05, and the stored header keeps both rounded
\* to the cent.
C8_HeaderAmounts ==
    HeaderIssued =>
        LET S == SumOfLineTotals(cart, Len(cart))
            w == posWrites[1]
        IN  /\ 20 * w.tax_amount = 100 * S
            /\ w.total_amount = 100 * S + w.tax_amount
            /\ 100 * w.total_amount = 105 * (100 * S)
            /\ w.ok =>
                 /\ 100 * sales[sale].tax_amount - 50 <= w.tax_amount
                 /\ w.tax_amount < 100 * sales[sale].tax_amount + 50
                 /\ 100 * sales[sale].total_amount - 50 <= w.total_amount
                 /\ w.total_amount < 100 * sales[sale].total_amount + 50

\* C8 witness: the cart [{price 100, qty 2}, {price 50, qty 1}] has its header stored
\* with subtotal 250.00, tax 12.50 and total 262.50.
C8_Witness ==
    /\ posPc = "items"
    /\ Len(cart) = 2
    /\ cart[1].price = 10000 /\ cart[1].quantity = 2
    /\ cart[2].price = 5000 /\ cart[2].quantity = 1
    /\ SumOfLineTotals(cart, 2) = 25000
    /\ sales[sale].tax_amount = 1250
    /\ sales[sale].total_amount = 26250

\* The lines of the stored sale `id`: its sale items without their sale_id.
LinesOfSale(id) ==
    LET rows == SelectSeq(sale_items, LAMBDA r : r.sale_id = id)
    IN  [i \in 1..Len(rows) |-> <<rows[i].product_id, rows[i].quantity, rows[i].unit_price,
                                  rows[i].total_price>>]

\* C9: two stored sales of the same cart carry the same tax_amount and total_amount
\* whatever shop_settings.tax_rate was at each checkout, and a step that changes
\* shop_settings changes neither the tax nor the total that the checkout computes for
\* the cart.
C9_TaxIgnoresSettings ==
    /\ [](\A i, j \in 1..Len(sales) :
            (LinesOfSale(sales[i].id) # <<>> /\ LinesOfSale(sales[i].id) = LinesOfSale(sales[j].id))
            => /\ sales[i].tax_amount = sales[j].tax_amount
               /\ sales[i].total_amount = sales[j].total_amount)
    /\ [][shop_settings' # shop_settings =>
            /\ calculateTax(cart)' = calculateTax(cart)
            /\ calculateTotal(cart)' = calculateTotal(cart)]_vars

\* C9 witness: two sales of the same cart were stored, one while the tax rate setting
\* was 5 and one while it was 10, with the same non-zero tax.
C9_Witness ==
    /\ Len(sales) = 2
    /\ LinesOfSale(1) # <<>> /\ LinesOfSale(1) = LinesOfSale(2)
    /\ sales[1].settings_rate = 5 /\ sales[2].settings_rate = 10
    /\ sales[1].tax_amount = sales[2].tax_amount /\ sales[1].tax_amount > 0
    /\ sales[1].total_amount = sales[2].total_amount

\* C10: a checkout issues exactly one sale header insert, first; the sale items insert
\* comes last and only after the header was stored, with one row per cart line that
\* references the stored header's id and carries the line's product, quantity, unit
\* price and line total; every stored sale item references a stored header.
C10_HeaderThenItems ==
    /\ [](/\ \A i \in 1..Len(sale_items) :
                \E j \in 1..Len(sales) : sales[j].id = sale_items[i].sale_id
          /\ Len(posWrites) >= 1 => posWrites[1].op = "insert_sale"
          /\ \A k \in 2..Len(posWrites) : posWrites[k].op # "insert_sale"
          /\ \A k \in 1..Len(posWrites) : posWrites[k].op = "insert_sale_items" =>
                /\ k = Len(posWrites) /\ k > 1
                /\ posWrites[1].ok
                /\ \E j \in 1..Len(sales) : sales[j].id = sale
                /\ \A i \in 1..Len(posWrites[k].rows) : posWrites[k].rows[i].sale_id = sale)
    /\ [][(posPc = "items" /\ posPc' = "done") =>
            LET w == posWrites'[Len(posWrites')]
            IN  /\ w.op = "insert_sale_items"
                /\ Len(w.rows) = Len(cart)
                /\ \A i \in 1..Len(cart) :
                      w.rows[i] = [sale_id |-> sale, product_id |-> cart[i].product,
                                   quantity |-> cart[i].quantity,
                                   unit_price |-> productPrice[cart[i].product],
                                   total_price |-> cart[i].total]
                /\ sale_items' = IF w.ok THEN sale_items \o w.rows ELSE sale_items]_vars

\* C10 witness: a checkout of a two-line cart has stored its header and then its two
\* sale items, the first with quantity 2.
C10_Witness ==
    /\ posPc = "done" /\ posOutcome = "success"
    /\ posWrites[1].op = "insert_sale"
    /\ posWrites[Len(posWrites)].op = "insert_sale_items"
    /\ Len(posWrites[Len(posWrites)].rows) = 2
    /\ Len(LinesOfSale(sale)) = 2
    /\ LinesOfSale(sale)[1][2] = 2

\* C11: once a checkout has finished, every stored sale header has sale items.
C11_SaleWithItems ==
    posPc \in {"done", "idle"} =>
        \A j \in 1..Len(sales) : LinesOfSale(sales[j].id) # <<>>

\* C12: no step of a checkout, whatever its outcome, changes a variant's stored
\* quantity or the stock log.
C12_CheckoutLeavesStock ==
    [][(posPc # "idle" \/ posPc' # "idle" \/ posOutcome' # posOutcome) =>
          /\ product_variants' = product_variants
          /\ stock_logs' = stock_logs]_vars

\* C12 witness: a checkout that sold 2 of p1 has succeeded and p1's variant still holds
\* its quantity, the stock log its one row.
C12_Witness ==
    /\ posPc = "done" /\ posOutcome = "success"
    /\ Len(LinesOfSale(sale)) >= 1
    /\ LinesOfSale(sale)[1][1] = "p1" /\ LinesOfSale(sale)[1][2] = 2
    /\ product_variants["v1"].product_id = "p1"
    /\ product_variants["v1"].quantity = MaxStock
    /\ stock_logs = <<SeedLog>>

\* C20 (checkout): a checkout one of whose store calls returned an error ends with
\* an error notification.
C20_CheckoutErrorsSurfaced ==
    (posPc = "done" /\ \E k \in 1..Len(posWrites) : ~posWrites[k].ok) =>
        posOutcome = "error"

\* C13: when a bulk price adjustment ends rejected because a product's adjusted price
\* would be negative, every selected product has the price and the category it had
\* when the batch was submitted.
C13_RejectedBatchNoWrite ==
    (bulkPc = "done" /\ bulkOutcome = "rejected") =>
        \A p \in (bulk.selectedIds \cap products) \cap DOMAIN bulk.before :
            <<productPrice[p], productCategory[p]>> = bulk.before[p]

\* C14: after a successful bulk adjustment every selected product stores the value
\* computed from its own price at submit: the cent amount nearest to
\* max(0, p x (1 + a/100)) for a percentage a, p + a for a fixed amount a.
C14_BulkAdjustedPrices ==
    (bulkPc = "done" /\ bulkOutcome = "success" /\ bulk.editType = "adjust"
        /\ bulk.adjustment # <<>>) =>
        \A p \in (bulk.selectedIds \cap products) \cap DOMAIN bulk.before :
            LET p0 == bulk.before[p][1]
                a == bulk.adjustment[1]
            IN  IF bulk.adjType = "percentage"
                THEN /\ 100 * productPrice[p] - 50 <= Max0(p0 * (100 + a))
                     /\ Max0(p0 * (100 + a)) < 100 * productPrice[p] + 50
                ELSE productPrice[p] = p0 + a

\* C14 witness: prices [100, 50, 20] adjusted by -30% have become [70, 35, 14].
C14_Witness ==
    /\ bulkPc = "done" /\ bulkOutcome = "success"
    /\ bulk.editType = "adjust" /\ bulk.adjType = "percentage"
    /\ bulk.adjustment = <<0 - 30>>
    /\ bulk.selectedIds = {"p1", "p2", "p3"}
    /\ bulk.before["p1"][1] = 10000 /\ bulk.before["p2"][1] = 5000
    /\ bulk.before["p3"][1] = 2000
    /\ productPrice["p1"] = 7000 /\ productPrice["p2"] = 3500 /\ productPrice["p3"] = 1400

\* The data lines of the file in import that have at least 3 fields and a
\* non-negative price.
ValidLines == SelectSeq(csv.lines, LAMBDA row : row.n >= 3 /\ ParsedPrice(row) >= 0)

C16_ImportCounts ==
    [][(csvPc = "insert" /\ csvOutcome' = "success") =>
          LET v == ValidLines
              c == csv.productsToImport
              r == csv'
          IN  /\ r.imported = Cardinality(products' \ products)
              /\ r.skipped = Cardinality({i \in 1..Len(c) : c[i].sku \in StoredSkus})
              /\ r.duplicates = Cardinality({i \in 1..Len(v) :
                                      \E j \in 1..(i - 1) : v[j].sku = v[i].sku})
              /\ r.imported + r.skipped + r.duplicates = Len(v)]_vars

\* C16 witness: an import has reported 1 imported, 1 skipped and 1 duplicate in file.
C16_Witness ==
    /\ csvPc = "done" /\ csvOutcome = "success"
    /\ csv.imported = 1 /\ csv.skipped = 1 /\ csv.duplicates = 1
    /\ Len(csv.lines) = 3

\* C17: without account deletions, a sign-up whose transaction overlapped no other
\* gets the admin role when it is the first account created and the user role when
\* it is a later one, and user_roles holds exactly the roles so given.
C17_FirstAdminThenUsers ==
    /\ \A i \in 1..Len(creations) :
          (/\ creations[i].role # "deleted"
           /\ ~creations[i].overlapped
           /\ \A j \in 1..(i - 1) : creations[j].role # "deleted")
          => creations[i].role = IF i = 1 THEN "admin" ELSE "user"
    /\ (\A i \in 1..Len(creations) : creations[i].role # "deleted") =>
          user_roles = {<<creations[i].user, creations[i].role>> : i \in 1..Len(creations)}

\* C17 witness: three accounts were created one after the other; the first is the
\* admin, the two after it are users.
C17_Witness ==
    /\ Len(creations) = 3
    /\ \A i \in 1..3 : creations[i].role # "deleted" /\ ~creations[i].overlapped
    /\ user_roles = {<<creations[1].user, "admin">>, <<creations[2].user, "user">>,
                     <<creations[3].user, "user">>}

\* C18: a request changes a row only when its caller holds the admin role, and a
\* select by a caller without the admin role returns nothing but the caller's own
\* profile row and own role rows.
C18_AdminOnlyWrites ==
    /\ [][(appRows' # appRows \/ user_roles' # user_roles) =>
            /\ lastCall'.changed /\ lastCall'.cmd # "SELECT"
            /\ <<lastCall'.caller, "admin">> \in user_roles]_vars
    /\ [][lastCall'.changed = (appRows' # appRows \/ user_roles' # user_roles)]_vars
    /\ [](\A caller \in auth_users \cup {Anon}, t \in Tables :
            <<caller, "admin">> \notin user_roles =>
                \A r \in RowsVisible(caller, t) :
                    r.table \in {"user_roles", "profiles"} /\ r.id = caller)

\* C18 witness: the user u2 asked for a delete while the product row, the admin's
\* profile and the admin's role were stored; nothing changed, and u2 sees of
\* user_roles and profiles only the own rows.
C18_Witness ==
    /\ lastCall.caller = "u2" /\ lastCall.cmd = "DELETE" /\ ~lastCall.changed
    /\ user_roles = {<<"u1", "admin">>, <<"u2", "user">>}
    /\ [table |-> "products", id |-> "r1", val |-> "a"] \in appRows
    /\ RowsVisible("u2", "user_roles") = {[table |-> "user_roles", id |-> "u2", val |-> "user"]}
    /\ RowsVisible("u2", "profiles") = {ProfileRow("u2")}
    /\ RowsVisible("u2", "products") = {}

\* C19: every stored product can be deleted: the delete request, with the store
\* reachable, removes the product, and no variant and no sale item refers to it after.
C19_DeleteRemovesDependants ==
    \A p \in products :
        ENABLED (/\ DeleteProduct(p, TRUE)
                 /\ p \notin products'
                 /\ \A v \in DOMAIN product_variants' : product_variants'[v].product_id # p
                 /\ \A i \in 1..Len(sale_items') : sale_items'[i].product_id # p)

\* C21: every stored product price is >= 0, and a negative price never reaches a
\* write: the product form and the bulk edit end rejected when the price field is
\* negative, a bulk adjustment stops at the product whose new price would be negative
\* and leaves that product's price as it was, and the candidates of a CSV import
\* carry no negative price.
C21_PriceNonNegative ==
    /\ \A p \in products : productPrice[p] >= 0
    /\ (prodPc # "idle" /\ prodForm.price # <<>> /\ prodForm.price[1] < 0) =>
           (prodPc = "done" /\ prodOutcome = "rejected")
    /\ (bulkPc # "idle" /\ bulk.price # <<>> /\ bulk.price[1] < 0) =>
           (bulkPc = "done" /\ bulkOutcome = "invalid")
    /\ (bulkPc = "update") =>
           BulkNewPrice(bulkFetched[1].price, bulk.adjType, bulk.adjustment[1]) >= 0
    /\ (bulkPc = "done" /\ bulkOutcome = "rejected") =>
           /\ BulkNewPrice(bulkFetched[1].price, bulk.adjType, bulk.adjustment[1]) < 0
           /\ productPrice[bulkFetched[1].id] = bulkFetched[1].price
    /\ csvPc # "idle" =>
           \A i \in 1..Len(csv.productsToImport) : csv.productsToImport[i].price >= 0

\* C21 witness: after the form stored the price 0 for p1, an import of a file with a
\* line of price -1.00 for N1 and a valid line has succeeded, and no N1 is stored.
C21_Witness ==
    /\ csvPc = "done" /\ csvOutcome = "success"
    /\ \E i \in 1..Len(csv.lines) :
          csv.lines[i].n >= 4 /\ csv.lines[i].price = <<0 - 100>>
    /\ csv.imported >= 1
    /\ "N1" \notin StoredSkus
    /\ productPrice["p1"] = 0

\* C22: the stock log accepts the row of every adjustment whose quantity update was
\* stored: with the store reachable and the row's product and variant present, the
\* insert of the log row adds the row.
C22_LogRowAccepted ==
    \A s \in Sessions :
        (pc[s] = "log" /\ StockLogForeignKeys(LogRow(attempt[s]))) =>
            ENABLED (/\ InsertStockLogDone(s, TRUE, TRUE)
                     /\ stock_logs' = Append(stock_logs, LogRow(attempt[s])))

\* C23: every cart line's total is the unit price of the line's product (as the page
\* loaded it) times the line's quantity.
C23_LineTotals ==
    \A i \in 1..Len(cart) : cart[i].total = cart[i].price * cart[i].quantity

\* C23 witness: a cart of two lines, the first raised to quantity 2 at 19.99 with
\* total 39.98, the second at quantity 1.
C23_Witness ==
    /\ Len(cart) = 2
    /\ cart[1].price = 1999 /\ cart[1].quantity = 2 /\ cart[1].total = 3998
    /\ cart[2].quantity = 1 /\ cart[2].total = cart[2].price

\* A step that adds product p to the cart: the product card's click, or Enter with
\* p's SKU in the key buffer.
AddsToCart(p) == AddToCart(p) \/ (EnterPress /\ FindBySku(keyboardBuffer) = p)

\* C27: the cart holds at most one line per product and every line's quantity is
\* >= 1; a step that adds a product already in the cart raises its line's quantity by
\* one and leaves the other lines; the minus button on a line of quantity 1 removes
\* the line.
C27_OneLinePerProduct ==
    /\ [](/\ \A i, j \in 1..Len(cart) : i # j => cart[i].product # cart[j].product
          /\ \A i \in 1..Len(cart) : cart[i].quantity >= 1)
    /\ [][\A p \in ProductIds :
            (AddsToCart(p) /\ CartIndex(cart, p) # 0) =>
                LET k == CartIndex(cart, p)
                IN  cart' = [cart EXCEPT ![k].quantity = @ + 1,
                                         ![k].total = cart[k].price * (cart[k].quantity + 1)]]_vars
    /\ [][\A p \in ProductIds :
            (DecrementQuantity(p) /\ cart[CartIndex(cart, p)].quantity = 1) =>
                /\ CartIndex(cart', p) = 0
                /\ Len(cart') = Len(cart) - 1]_vars

\* C24: over all the sign-ups committed so far, deletions and overlapping sign-ups
\* included, the trigger has given the admin role to at most one account.
C24_AdminGrantedOnce ==
    Cardinality({i \in 1..Len(creations) : creations[i].role = "admin"}) <= 1

\* C25: under every interleaving of the sessions' adjustments, every quantity an
\* adjustment sends in its update is >= 0, and so is the quantity it leaves stored.
C25_NoNegativeWrite ==
    /\ [](\A s \in Sessions :
            /\ pc[s] \in {"update", "log"} => attempt[s].newQuantity >= 0
            /\ \A k \in 1..Len(writes[s]) :
                  writes[s][k].op = "update_variant" => writes[s][k].quantity >= 0)
    /\ [][\A s \in Sessions : QuantityWritten(s) =>
            product_variants'[attempt[s].variant].quantity >= 0]_vars

\* C25 witness: two sessions loaded the quantity 1 of the same variant and both
\* removed 1; both updates are stored and the row holds 0.
C25_Witness ==
    \E s, t \in Sessions :
        /\ s # t
        /\ pc[s] = "log" /\ pc[t] = "log"
        /\ attempt[s].variant = attempt[t].variant
        /\ attempt[s].type = "remove" /\ attempt[t].type = "remove"
        /\ attempt[s].qty = 1 /\ attempt[t].qty = 1
        /\ attempt[s].base = 1 /\ attempt[t].base = 1
        /\ attempt[s].variant \in DOMAIN product_variants
        /\ Stored(attempt[s].variant) = 0

\* C26: when an adjustment attempt of the single session has finished accepted,
\* rejected or failed at one of its two writes, the form's current stock is the
\* stored quantity of the selected variant.
C26_CurrentStockIsStored ==
    LET s == SoloSession
    IN  (/\ pc[s] = "done"
         /\ outcome[s] \in {"success", "rejected"} \/ Len(writes[s]) >= 1
         /\ selectedVariant[s] \in DOMAIN product_variants) =>
            currentStock[s] = <<Stored(selectedVariant[s])>>

\* The step is a step of a checkout.
CheckoutStep == posPc # "idle" \/ posPc' # "idle" \/ posOutcome' # posOutcome

\* C28: a step of a checkout empties the cart and resets the customer and payment
\* fields when it is the sale items insert succeeding after the header insert
\* succeeded, and leaves them unchanged otherwise; a checkout ends in success only
\* after both inserts succeeded; a checkout of an empty cart changes nothing in the
\* store and issues no write.
C28_ResetOnlyOnSuccess ==
    /\ [][CheckoutStep =>
            IF posOutcome' = "success" /\ posOutcome # "success"
            THEN /\ posPc = "items"
                 /\ cart' = <<>> /\ customerName' = "" /\ phoneNumber' = ""
                 /\ paymentMethod' = "cash"
                 /\ posWrites'[1].op = "insert_sale" /\ posWrites'[1].ok
                 /\ posWrites'[Len(posWrites')].op = "insert_sale_items"
                 /\ posWrites'[Len(posWrites')].ok
            ELSE UNCHANGED posFormVars]_vars
    /\ []((posPc = "done" /\ posOutcome # "success") => cart # <<>>)
    /\ []((posPc = "done" /\ Len(posWrites) >= 1 /\ posWrites[1].ok
            /\ posWrites[Len(posWrites)].op = "insert_sale_items"
            /\ posWrites[Len(posWrites)].ok) => posOutcome = "success")
    /\ [][(posPc = "idle" /\ cart = <<>> /\ CheckoutStep) =>
            /\ posOutcome' = "empty" /\ posPc' = "idle" /\ posWrites' = <<>>
            /\ UNCHANGED <<stockVars, posStoreVars, settingsVars, posFormVars>>]_vars

\* C28 witness: a checkout with a customer entered stored its header and failed at
\* the sale items insert; the cart and the customer fields are as entered.
C28_Witness ==
    /\ posPc = "done" /\ posOutcome = "error"
    /\ Len(posWrites) >= 2
    /\ posWrites[1].ok
    /\ posWrites[Len(posWrites)].op = "insert_sale_items"
    /\ ~posWrites[Len(posWrites)].ok
    /\ Len(cart) = 2
    /\ customerName = "Ann" /\ phoneNumber = "555"

\* C29: the layout shows protected content only for an admin: whenever content
\* is shown, the user the layout holds has the admin role; and the step in which
\* a role lookup answers anything but admin signs the session out and leaves
\* the protected pages for /auth.
C29_ContentOnlyForAdmin ==
    /\ [](ContentShown => has_role(layUser, "admin"))
    /\ [][\A u \in Users, ok \in BOOLEAN :
            (RoleLookupDone(u, ok) /\ checkUserRole(u, ok) # "admin")
                => (authSession' = "" /\ ~layMounted')]_vars

\* C30: keys typed outside input fields accumulate in the buffer and Enter
\* looks the buffer up and empties it; a buffer that received no key for
\* 100 ms is empty, so the text an Enter looks up is exactly the keys typed
\* since the last such pause.
C30_AbandonedKeysCleared ==
    /\ [](idle100 => keyboardBuffer = <<>>)
    /\ [][(\E c \in ScanKeys : KeyPress(c)) =>
            \E c \in ScanKeys : keyboardBuffer' = Append(keyboardBuffer, c)]_vars
    /\ [][EnterPress => (keyboardBuffer = entry /\ keyboardBuffer' = <<>>)]_vars

====
